---------------------------- MODULE Spec2Model ----------------------------
(***************************************************************************)
(* A model of the cq static-quality analyzer (RepoGrader).                 *)
(*                                                                         *)
(* The analyzers are pure pipelines over the scanned sources, so each      *)
(* subsystem is a small state machine: Init draws the inputs of one scan   *)
(* (sources, configuration) from bounded sets, and the actions apply the   *)
(* analyzer as the code does.                                              *)
(*                                                                         *)
(*   SpecDup   DuplicationAnalyzer.analyze over sources the parser rejects  *)
(*   SpecNorm  DuplicationAnalyzer.analyze over sources the parser accepts  *)
(*   SpecCx    ComplexityAnalyzer.analyze of one file, default config       *)
(*   SpecScore ComplexityAnalyzer.analyze of two files, several configs     *)
(*   SpecArch  ArchitectureAnalyzer.analyze of two files                     *)
(*   SpecNest  ComplexityAnalyzer.analyze of one file, every compound kind  *)
(*   SpecRun   Runner.run, from the enumeration to the project report      *)
(*   SpecAgg   _aggregate_project over up to two file reports               *)
(*   SpecBoot  _bootstrap_interval, called repeatedly                      *)
(*   SpecCov   count_annotation_coverage over the nodes of one tree        *)
(*   SpecCli   cli.main, from the parsed arguments to the exit code        *)
(*                                                                         *)
(* The duplication ratios and the complexity scores of the analyzers are   *)
(* modelled as exact rationals <<numerator, denominator>>; Runner.run is   *)
(* modelled in floating-point arithmetic with a short significand.         *)
(***************************************************************************)
EXTENDS Integers, Sequences, FiniteSets, TLC

VARIABLES
    dupPc,        \* "start" | "done": position of DuplicationAnalyzer.analyze
    dupK,         \* config.k
    dupW,         \* config.w
    dupPaths,     \* the keys of `sources`, in dict order
    dupSources,   \* path -> source record
    dupTokens,    \* `normalized`: path -> token list
    dupResult     \* DuplicationResult, once analyze has returned

VARIABLES
    cxPaths,      \* the keys of `sources` of ComplexityAnalyzer.analyze, in order
    cxSources,    \* path -> [parse_ok, tree]
    cxLoc,        \* loc_map
    cxTarget,     \* config.scoring.complexity_scale.target_per_loc, a rational
    cxHardCap,    \* config.scoring.complexity_scale.hard_cap
    cxIdx,        \* index in cxPaths of the file the loop of analyze is at
    cxResult,     \* ComplexityResult: scores, raw, per_loc
    cxTrace       \* path -> what the traversal of _compute did, in order

dupVars == <<dupPc, dupK, dupW, dupPaths, dupSources, dupTokens, dupResult>>
cxVars == <<cxPaths, cxSources, cxLoc, cxTarget, cxHardCap, cxIdx, cxResult, cxTrace>>

VARIABLES
    archMapping,    \* config.mapping as its items, in the order of the dict
    archAllowed,    \* config.allowed_edges, a list of [from, to] pairs
    archPaths,      \* the keys of the files scanned, in the order of the dict
    archSources,    \* path -> the parsed source of the file
    archIdx,        \* position of the loop of ArchitectureAnalyzer.analyze
    violations      \* the list of violations built so far

archVars == <<archMapping, archAllowed, archPaths, archSources, archIdx, violations>>

VARIABLES
    runPc,          \* position in Runner.run
    runConfig,      \* the configuration of the scan
    runPaths,       \* the keys of loc_map (relative paths), in order
    runFiles,       \* relative path -> what was read and parsed of the file
    duplication,    \* result of DuplicationAnalyzer.analyze
    complexity,     \* result of ComplexityAnalyzer.analyze
    pylintRun,      \* what the pylint child process did
    lint,           \* result of LintAnalyzer.analyze
    mypyRun,        \* what the mypy child process did
    typing,         \* result of TypingAnalyzer.analyze
    runIdx,         \* position of the loop over loc_map
    files_report,   \* the FileReports built so far
    degraded_metrics,
    project         \* the ProjectReport, once the scan has aggregated

runVars == <<runPc, runConfig, runPaths, runFiles, duplication, complexity, pylintRun,
             lint, mypyRun, typing, runIdx, files_report, degraded_metrics, project>>

VARIABLES
    aggFiles,       \* `files` of _aggregate_project, a list of FileReports
    aggRoleWeights, \* `role_weights` of _aggregate_project
    aggIdx,         \* position of the loop of _aggregate_project
    aggTotals,      \* `totals`: metric -> float
    aggWeightTotals,\* `weight_totals`: metric -> float
    aggResult       \* the dict _aggregate_project returns

aggVars == <<aggFiles, aggRoleWeights, aggIdx, aggTotals, aggWeightTotals, aggResult>>

VARIABLES
    bootCalls,      \* the calls of _bootstrap_interval made so far, with their results
    bootRng         \* the state of the Random object of the latest call

bootVars == <<bootCalls, bootRng>>

VARIABLES
    cliPc,          \* position in cli.main
    cliArgs,        \* the parsed arguments: command, format, out
    cliEnv,         \* what main meets: is jsonschema installed, does the report
                    \* conform to the schema, does the out directory exist, does
                    \* Runner.run return
    cliErrors,      \* `errors`, the second component of what Runner.run returns
    cliFiles,       \* the files of the out directory (none while it does not exist)
    cliDirs,        \* the directories that exist
    cliOutput,      \* what was written to stdout and stderr, as <<stream, text>>
    cliExit         \* the exit code main returned, "none" before

cliVars == <<cliPc, cliArgs, cliEnv, cliErrors, cliFiles, cliDirs, cliOutput, cliExit>>

VARIABLES
    covPc,          \* position in count_annotation_coverage
    covTree,        \* the nodes of the tree, in the order ast.walk yields them
    covIdx,         \* index of the node the walk is at
    covAnnotated,   \* the local `annotated`
    covTotal,       \* the local `total`
    covResult       \* the returned pair, <<>> before the return

covVars == <<covPc, covTree, covIdx, covAnnotated, covTotal, covResult>>

vars == <<dupVars, cxVars, archVars, runVars, aggVars, bootVars, cliVars, covVars>>

\* What each analyzer leaves alone.
nonDupVars == <<cxVars, archVars, runVars, aggVars, bootVars, cliVars, covVars>>
nonCxVars == <<dupVars, archVars, runVars, aggVars, bootVars, cliVars, covVars>>
nonArchVars == <<dupVars, cxVars, runVars, aggVars, bootVars, cliVars, covVars>>
nonRunVars == <<dupVars, cxVars, archVars, aggVars, bootVars, cliVars, covVars>>
nonAggVars == <<dupVars, cxVars, archVars, runVars, bootVars, cliVars, covVars>>
nonBootVars == <<dupVars, cxVars, archVars, runVars, aggVars, cliVars, covVars>>
nonCliVars == <<dupVars, cxVars, archVars, runVars, aggVars, bootVars, covVars>>
nonCovVars == <<dupVars, cxVars, archVars, runVars, aggVars, bootVars, cliVars>>

-----------------------------------------------------------------------------
(* Generic helpers                                                         *)

Min(a, b) == IF a <= b THEN a ELSE b
Max(a, b) == IF a >= b THEN a ELSE b

Range(s) == {s[i] : i \in 1..Len(s)}

\* All sequences over S of length 0..n.
SeqsUpTo(S, n) == UNION {[1..m -> S] : m \in 0..n}

RECURSIVE Flatten(_)
\* Concatenation of a sequence of sequences.
Flatten(ss) == IF ss = <<>> THEN <<>> ELSE Head(ss) \o Flatten(Tail(ss))

-----------------------------------------------------------------------------
(* Each specification runs one analyzer; the others are not called.        *)

\* No duplication analysis is under way.
DupIdle ==
    /\ dupPc = "idle"
    /\ dupK = 1
    /\ dupW = 1
    /\ dupPaths = <<>>
    /\ dupSources = <<>>
    /\ dupTokens = <<>>
    /\ dupResult = <<>>

\* No complexity analysis is under way.
CxIdle ==
    /\ cxPaths = <<>>
    /\ cxSources = <<>>
    /\ cxLoc = <<>>
    /\ cxTarget = <<0, 1>>
    /\ cxHardCap = 0
    /\ cxIdx = 1
    /\ cxResult = <<>>
    /\ cxTrace = <<>>

\* No architecture analysis is under way.
ArchIdle ==
    /\ archMapping = <<>>
    /\ archAllowed = <<>>
    /\ archPaths = <<>>
    /\ archSources = <<>>
    /\ archIdx = 1
    /\ violations = <<>>

\* No scan is under way.
RunIdle ==
    /\ runPc = "idle"
    /\ runConfig = <<>>
    /\ runPaths = <<>>
    /\ runFiles = <<>>
    /\ duplication = <<>>
    /\ complexity = <<>>
    /\ pylintRun = <<>>
    /\ lint = <<>>
    /\ mypyRun = <<>>
    /\ typing = <<>>
    /\ runIdx = 1
    /\ files_report = <<>>
    /\ degraded_metrics = {}
    /\ project = <<>>

\* No aggregation on its own is under way.
AggIdle ==
    /\ aggFiles = <<>>
    /\ aggRoleWeights = <<>>
    /\ aggIdx = 1
    /\ aggTotals = <<>>
    /\ aggWeightTotals = <<>>
    /\ aggResult = <<>>

\* _bootstrap_interval has not been called on its own.
BootIdle ==
    /\ bootCalls = <<>>
    /\ bootRng = 0

\* The command line is not in use.
CliIdle ==
    /\ cliPc = "idle"
    /\ cliArgs = <<>>
    /\ cliEnv = <<>>
    /\ cliErrors = <<>>
    /\ cliFiles = {}
    /\ cliDirs = {}
    /\ cliOutput = <<>>
    /\ cliExit = "none"

\* No tree is being counted.
CovIdle ==
    /\ covPc = "idle"
    /\ covTree = <<>>
    /\ covIdx = 0
    /\ covAnnotated = 0
    /\ covTotal = 0
    /\ covResult = <<>>

DupOnly == CxIdle /\ ArchIdle /\ RunIdle /\ AggIdle /\ BootIdle /\ CliIdle /\ CovIdle
CxOnly == DupIdle /\ ArchIdle /\ RunIdle /\ AggIdle /\ BootIdle /\ CliIdle /\ CovIdle
ArchOnly == DupIdle /\ CxIdle /\ RunIdle /\ AggIdle /\ BootIdle /\ CliIdle /\ CovIdle
RunOnly == DupIdle /\ CxIdle /\ ArchIdle /\ AggIdle /\ BootIdle /\ CliIdle /\ CovIdle
AggOnly == DupIdle /\ CxIdle /\ ArchIdle /\ RunIdle /\ BootIdle /\ CliIdle /\ CovIdle
BootOnly == DupIdle /\ CxIdle /\ ArchIdle /\ RunIdle /\ AggIdle /\ CliIdle /\ CovIdle
CliOnly == DupIdle /\ CxIdle /\ ArchIdle /\ RunIdle /\ AggIdle /\ BootIdle /\ CovIdle
CovOnly == DupIdle /\ CxIdle /\ ArchIdle /\ RunIdle /\ AggIdle /\ BootIdle /\ CliIdle

-----------------------------------------------------------------------------
(* Bounds of the duplication model                                         *)

MaxTokens == 4      \* longest textual source, in tokens
MaxK == 2           \* largest configured k
MaxW == 2           \* largest configured w
HashMod == 7        \* size of the modelled hash range (the code's is 2^32)

\* The tokens a source can be made of.  "#" starts a comment.
RawTokens == {"a", "b"}
CommentMark == "#"
Idents == {"x", "y"}
Literals == {"1", "2"}
Files == {"a.py", "b.py", "c.py"}

\* Every token that can occur, in a fixed order (used to encode texts).
TokenOrder ==
    <<"a", "b", "#", "ID", "CONST", "x", "y", "1", "2", "def", "return",
      "call", "except", "+", "=", ":", ".", "expr", "try">>

TokenCode(t) == CHOOSE i \in 1..Len(TokenOrder) : TokenOrder[i] = t

-----------------------------------------------------------------------------
(* AST services: the part of the Python AST the normalizer reads.          *)
(* A node is [kind, name, kids]; name is "" for a node without a name.     *)

Node(kind, name, kids) == [kind |-> kind, name |-> name, kids |-> kids]

NoTree == Node("None", "", <<>>)

\* def f(p[: ann]): return p + c
FuncTree(f, p, ann, c) ==
    Node("FunctionDef", f,
         << Node("arg", p, IF ann = "" THEN <<>> ELSE <<Node("Name", ann, <<>>)>>),
            Node("Return", "",
                 <<Node("BinOp", "",
                        <<Node("Name", p, <<>>), Node("Constant", c, <<>>)>>)>>) >>)

\* f(kw=c)
CallTree(f, kw, c) ==
    Node("Expr", "",
         <<Node("Call", "",
                << Node("Name", f, <<>>),
                   Node("keyword", kw, <<Node("Constant", c, <<>>)>>) >>)>>)

\* try: ... except e as n: ...
HandlerTree(e, n) ==
    Node("Try", "", <<Node("ExceptHandler", n, <<Node("Name", e, <<>>)>>)>>)

\* v.a
AttrTree(v, a) ==
    Node("Expr", "", <<Node("Attribute", a, <<Node("Name", v, <<>>)>>)>>)

ParsedTrees ==
    {FuncTree(f, p, ann, c) :
        f \in Idents, p \in Idents, ann \in Idents \cup {""}, c \in Literals}
    \cup {CallTree(f, kw, c) : f \in Idents, kw \in Idents, c \in Literals}
    \cup {HandlerTree(e, n) : e \in Idents, n \in Idents}
    \cup {AttrTree(v, a) : v \in Idents, a \in Idents}

\* NormalizingTransformer.identifier_placeholder
Placeholder == "ID"
ConstToken == "CONST"

RECURSIVE Normalize(_)
\* NormalizingTransformer.visit: the visit_<kind> method when there is one,
\* generic_visit (children visited, node kept) otherwise.
Normalize(n) ==
    CASE n.kind = "Name" -> Node("Name", Placeholder, <<>>)
      [] n.kind = "Attribute" ->
            Node("Attribute", Placeholder, <<Normalize(n.kids[1])>>)
      [] n.kind = "Constant" -> Node("Constant", ConstToken, <<>>)
      [] n.kind \in {"FunctionDef", "AsyncFunctionDef", "ClassDef"} ->
            Node(n.kind, Placeholder, [i \in 1..Len(n.kids) |-> Normalize(n.kids[i])])
      [] n.kind = "arg" -> Node("arg", Placeholder, n.kids)
      [] OTHER ->
            Node(n.kind, n.name, [i \in 1..Len(n.kids) |-> Normalize(n.kids[i])])

\* The tokens a node itself contributes to the unparsed text.
LeadTokens(n) ==
    CASE n.kind \in {"Name", "Constant"} -> <<n.name>>
      [] n.kind = "Attribute" -> <<".", n.name>>
      [] n.kind = "FunctionDef" -> <<"def", n.name>>
      [] n.kind = "arg" -> IF n.kids = <<>> THEN <<n.name>> ELSE <<n.name, ":">>
      [] n.kind = "keyword" -> <<n.name, "=">>
      [] n.kind = "ExceptHandler" -> <<"except", n.name>>
      [] n.kind = "Return" -> <<"return">>
      [] n.kind = "BinOp" -> <<"+">>
      [] n.kind = "Call" -> <<"call">>
      [] n.kind = "Expr" -> <<"expr">>
      [] n.kind = "Try" -> <<"try">>
      [] OTHER -> <<>>

RECURSIVE Unparse(_)
\* ast.unparse followed by str.split: the text of a tree, as tokens.  Every
\* name the tree holds appears in its text.
Unparse(n) ==
    LeadTokens(n) \o Flatten([i \in 1..Len(n.kids) |-> Unparse(n.kids[i])])

-----------------------------------------------------------------------------
(* Duplication engine                                                      *)

\* config.normalize defaults
StripLiterals == TRUE
StripComments == TRUE

RECURSIVE Encode(_)
\* " ".join(tokens): tokens hold no whitespace, so the joined text
\* determines the token list; it is encoded as a number.
Encode(tokens) ==
    IF tokens = <<>> THEN 0
    ELSE Encode(SubSeq(tokens, 1, Len(tokens) - 1)) * (Len(TokenOrder) + 1)
            + TokenCode(tokens[Len(tokens)])

\* _stable_hash: a fixed function of the text into a bounded range, which
\* is not injective (distinct texts can collide).
StableHash(tokens) == (Encode(tokens) * 5 + 3) % HashMod

\* One line of _strip_comments: the text before the first "#".
RECURSIVE CutAtComment(_)
CutAtComment(line) ==
    IF line = <<>> \/ Head(line) = CommentMark THEN <<>>
    ELSE <<Head(line)>> \o CutAtComment(Tail(line))

RECURSIVE StripCommentLines(_)
\* _strip_comments: whole-comment lines are dropped, the others cut.
StripCommentLines(lines) ==
    IF lines = <<>> THEN <<>>
    ELSE IF Head(lines) # <<>> /\ Head(Head(lines)) = CommentMark
         THEN StripCommentLines(Tail(lines))
         ELSE <<CutAtComment(Head(lines))>> \o StripCommentLines(Tail(lines))

\* _normalize: (tokens, success) of one source.
NormalizeSource(src) ==
    LET normalized ==
            IF src.parse_ok /\ StripLiterals
            THEN <<Unparse(Normalize(src.tree))>>
            ELSE src.text
        stripped == IF StripComments THEN StripCommentLines(normalized)
                    ELSE normalized
    IN  [tokens |-> Flatten(stripped), success |-> src.parse_ok]

\* min(window, key=lambda x: (x[0], x[1]))
PairLess(p, q) == p[1] < q[1] \/ (p[1] = q[1] /\ p[2] < q[2])
MinPair(window) ==
    CHOOSE p \in Range(window) : \A q \in Range(window) : p = q \/ PairLess(p, q)

\* (min_hash, min_pos) before the first selection
NoPair == <<-1, -1>>

RECURSIVE WinnowNoEvict(_, _, _, _, _, _, _)
\* Winnow without `window.pop(0)`: the window only grows.
WinnowNoEvict(tokens, k, w, i, window, minPair, hashes) ==
    IF i > Len(tokens) - k THEN hashes
    ELSE LET kgram == SubSeq(tokens, i + 1, i + k)
             win == Append(window, <<StableHash(kgram), i>>)
             cur == MinPair(win)
         IN  IF minPair # cur
             THEN WinnowNoEvict(tokens, k, w, i + 1, win, cur, Append(hashes, cur[1]))
             ELSE WinnowNoEvict(tokens, k, w, i + 1, win, minPair, hashes)

RECURSIVE Winnow(_, _, _, _, _, _, _)
\* The loop of _fingerprints from iteration i on; positions are 0-based as
\* in the code.
Winnow(tokens, k, w, i, window, minPair, hashes) ==
    IF i > Len(tokens) - k THEN hashes
    ELSE LET kgram == SubSeq(tokens, i + 1, i + k)
             appended == Append(window, <<StableHash(kgram), i>>)
             win == IF Len(appended) > w THEN Tail(appended) ELSE appended
             cur == MinPair(win)
         IN  IF minPair # cur
             THEN Winnow(tokens, k, w, i + 1, win, cur, Append(hashes, cur[1]))
             ELSE Winnow(tokens, k, w, i + 1, win, minPair, hashes)

\* _fingerprints returning nothing for a stream shorter than k.
FingerprintsDropShort(tokens, cfgK, cfgW) ==
    LET k == Max(1, cfgK)
        w == Max(1, cfgW)
    IN  IF Len(tokens) < k THEN <<>>
        ELSE Winnow(tokens, k, w, 0, <<>>, NoPair, <<>>)

\* _fingerprints
Fingerprints(tokens, cfgK, cfgW) ==
    LET k == Max(1, cfgK)
        w == Max(1, cfgW)
    IN  IF Len(tokens) < k
        THEN IF tokens = <<>> THEN <<>> ELSE <<StableHash(tokens)>>
        ELSE Winnow(tokens, k, w, 0, <<>>, NoPair, <<>>)

\* The entries of other_fprints that lie in set_self, with multiplicity.
IntersectionSizeMultiset(setSelf, otherFprints) ==
    Cardinality({i \in 1..Len(otherFprints) : otherFprints[i] \in setSelf})

\* len(set_self.intersection(other_fprints)): the intersection is a set.
IntersectionSize(setSelf, otherFprints) ==
    Cardinality(setSelf \cap Range(otherFprints))

RECURSIVE Overlaps(_, _, _, _, _)
\* The inner loop of _compute_ratios over items[i..].
Overlaps(path, setSelf, paths, fprints, i) ==
    IF i > Len(paths) THEN 0
    ELSE (IF paths[i] = path THEN 0
          ELSE IntersectionSize(setSelf, fprints[paths[i]]))
         + Overlaps(path, setSelf, paths, fprints, i + 1)

\* min(1.0, overlaps / d) as the rational <<numerator, denominator>>
RatioOf(overlaps, d) == <<Min(overlaps, d), d>>

\* _compute_ratios dividing by len(fprints) instead of len(set_self).
ComputeRatioListLength(path, paths, fprints) ==
    IF fprints[path] = <<>> THEN <<0, 1>>
    ELSE RatioOf(Overlaps(path, Range(fprints[path]), paths, fprints, 1),
                 Max(1, Len(fprints[path])))

\* _compute_ratios, for one path
ComputeRatio(path, paths, fprints) ==
    IF fprints[path] = <<>> THEN <<0, 1>>
    ELSE LET setSelf == Range(fprints[path])
         IN  RatioOf(Overlaps(path, setSelf, paths, fprints, 1),
                     Max(1, Cardinality(setSelf)))

-----------------------------------------------------------------------------
(* Complexity engine: the part of the Python AST the visitor reads.        *)
(* A node is [kind, id, exprs, body, orelse, handlers, finalbody]: exprs   *)
(* holds its expression children (test, value, values, type), the other    *)
(* fields its statement lists.  id names the node (its place in the tree). *)

MaxDepth == 3       \* deepest nesting of compound statements in a file

CxNode(kind, exprs, body, orelse, handlers, finalbody) ==
    [kind |-> kind, id |-> <<>>, exprs |-> exprs, body |-> body,
     orelse |-> orelse, handlers |-> handlers, finalbody |-> finalbody]

NameE == CxNode("Name", <<>>, <<>>, <<>>, <<>>, <<>>)
\* v1 and v2 and ... vn
BoolOpE(n) == CxNode("BoolOp", [i \in 1..n |-> NameE], <<>>, <<>>, <<>>, <<>>)
PassS == CxNode("Pass", <<>>, <<>>, <<>>, <<>>, <<>>)
ReturnS == CxNode("Return", <<>>, <<>>, <<>>, <<>>, <<>>)
ExprS(e) == CxNode("Expr", <<e>>, <<>>, <<>>, <<>>, <<>>)
IfS(test, body, orelse) == CxNode("If", <<test>>, body, orelse, <<>>, <<>>)
WhileS(test, body) == CxNode("While", <<test>>, body, <<>>, <<>>, <<>>)
HandlerN(body) == CxNode("ExceptHandler", <<>>, body, <<>>, <<>>, <<>>)
TryS(body, handlers, finalbody) == CxNode("Try", <<>>, body, <<>>, handlers, finalbody)
ModuleN(body) == CxNode("Module", <<>>, body, <<>>, <<>>, <<>>)

CxTests == {NameE, BoolOpE(2)}
CxLeaves == {ReturnS, ExprS(BoolOpE(3))}

RECURSIVE CxStmts(_)
\* The statements nested at most d deep: a compound statement around one
\* of the statements nested at most d - 1 deep.
CxStmts(d) ==
    IF d = 0 THEN CxLeaves
    ELSE LET S == CxStmts(d - 1)
         IN  CxLeaves
             \cup {IfS(t, <<s>>, <<>>) : t \in CxTests, s \in S}
             \cup {IfS(t, <<s>>, <<ReturnS>>) : t \in CxTests, s \in S}
             \cup {IfS(t, <<ReturnS>>, <<s>>) : t \in CxTests, s \in S}
             \cup {WhileS(t, <<s>>) : t \in CxTests, s \in S}
             \cup {TryS(<<ReturnS>>, <<HandlerN(<<s>>)>>, <<>>) : s \in S}
             \cup {TryS(<<ReturnS>>, <<>>, <<s>>) : s \in S}

RECURSIVE LabelNode(_, _)
\* The tree with every node named by its path from the root.
LabelNode(n, path) ==
    LET L(list, field) ==
            [i \in 1..Len(list) |-> LabelNode(list[i], path \o <<field, i>>)]
    IN  [kind |-> n.kind, id |-> path,
         exprs |-> L(n.exprs, 1), body |-> L(n.body, 2),
         orelse |-> L(n.orelse, 3), handlers |-> L(n.handlers, 4),
         finalbody |-> L(n.finalbody, 5)]

\* ast.parse of a file whose statements are `body`
ParseModule(body) == LabelNode(ModuleN(body), <<>>)

\* ast.iter_child_nodes, in the order generic_visit walks the fields
Children(n) == n.exprs \o n.body \o n.handlers \o n.orelse \o n.finalbody

\* The traversal state of _compute: complexity, stack, and the record of
\* what was done (log).
StartState == [complexity |-> 0, stack |-> <<>>, log |-> <<>>]

Event(ev, id, add, depth) == [ev |-> ev, id |-> id, add |-> add, depth |-> depth]

\* enter(): complexity += extra + len(stack); stack.append(1)
Enter(st, id) ==
    LET add == 1 + Len(st.stack)
    IN  [complexity |-> st.complexity + add,
         stack |-> Append(st.stack, 1),
         log |-> Append(st.log, Event("enter", id, add, Len(st.stack) + 1))]

\* leave(): if stack: stack.pop()
Leave(st, id) ==
    LET popped == IF st.stack # <<>>
                  THEN SubSeq(st.stack, 1, Len(st.stack) - 1) ELSE st.stack
    IN  [complexity |-> st.complexity,
         stack |-> popped,
         log |-> Append(st.log, Event("leave", id, 0, Len(popped)))]

\* complexity += n, on behalf of node id
Add(st, ev, id, n) ==
    [st EXCEPT !.complexity = @ + n,
               !.log = Append(@, Event(ev, id, n, Len(st.stack)))]

RECURSIVE Visit(_, _)
RECURSIVE GenericVisit(_, _)
RECURSIVE VisitAll(_, _)
RECURSIVE ElifLoop(_, _)
RECURSIVE VisitNonIf(_, _)
RECURSIVE HandlerLoop(_, _)

\* for child in list: self.visit(child)
VisitAll(list, st) ==
    IF list = <<>> THEN st ELSE VisitAll(Tail(list), Visit(Head(list), st))

\* NodeVisitor.generic_visit: visit every child node
GenericVisit(n, st) == VisitAll(Children(n), st)

\* visit_If, first loop: every If of node.orelse is entered, its children
\* visited, and left.
ElifLoop(list, st) ==
    IF list = <<>> THEN st
    ELSE LET c == Head(list)
         IN  ElifLoop(Tail(list),
                      IF c.kind = "If"
                      THEN Leave(GenericVisit(c, Enter(st, c.id)), c.id)
                      ELSE st)

\* The last loop of visit_If visiting every child of node.orelse.
VisitOrelseAll(list, st) == VisitAll(list, st)

\* visit_If, last loop: the children of node.orelse that are no If
VisitNonIf(list, st) ==
    IF list = <<>> THEN st
    ELSE LET c == Head(list)
         IN  VisitNonIf(Tail(list), IF c.kind # "If" THEN Visit(c, st) ELSE st)

\* visit_If
VisitIf(n, st) ==
    LET s1 == Enter(st, n.id)
        s2 == ElifLoop(n.orelse, s1)
        s3 == GenericVisit(n.exprs[1], s2)
        s4 == VisitAll(n.body, s3)
        s5 == VisitNonIf(n.orelse, s4)
    IN  Leave(s5, n.id)

\* visit_For, visit_While, visit_With
VisitLoop(n, st) == Leave(GenericVisit(n, Enter(st, n.id)), n.id)

\* visit_Try, the loop over node.handlers
HandlerLoop(list, st) ==
    IF list = <<>> THEN st
    ELSE LET h == Head(list)
         IN  HandlerLoop(Tail(list), Leave(GenericVisit(h, Enter(st, h.id)), h.id))

\* visit_Try; the finally block is named by the Try's id followed by 5
VisitTry(n, st) ==
    LET s1 == Enter(st, n.id)
        s2 == HandlerLoop(n.handlers, s1)
        s3 == IF n.finalbody # <<>>
              THEN Leave(VisitAll(n.finalbody, Enter(s2, n.id \o <<5>>)), n.id \o <<5>>)
              ELSE s2
        s4 == VisitAll(n.body, s3)
        s5 == VisitAll(n.orelse, s4)
    IN  Leave(s5, n.id)

\* visit_BoolOp
VisitBoolOp(n, st) ==
    GenericVisit(n, Add(st, "boolop", n.id, Max(0, Len(n.exprs) - 1)))

\* visit_Return
VisitReturn(n, st) == GenericVisit(n, Add(st, "return", n.id, 1))

\* NodeVisitor.visit: the visit_<kind> method when there is one,
\* generic_visit otherwise.
Visit(n, st) ==
    LET s0 == Add(st, "visit", n.id, 0)
    IN  CASE n.kind = "If" -> VisitIf(n, s0)
          [] n.kind \in {"For", "AsyncFor", "While", "With", "AsyncWith"} ->
                VisitLoop(n, s0)
          [] n.kind = "Try" -> VisitTry(n, s0)
          [] n.kind = "BoolOp" -> VisitBoolOp(n, s0)
          [] n.kind = "Return" -> VisitReturn(n, s0)
          [] OTHER -> GenericVisit(n, s0)

\* _compute: the traversal of a tree from an empty stack
Compute(tree) == Visit(tree, StartState)

-----------------------------------------------------------------------------
(* ComplexityAnalyzer.analyze                                              *)

MaxFileDepth == 1   \* deepest nesting in the files of a two-file scan
MaxLoc == 2         \* largest line count of a file

\* config defaults: target_per_loc 0.25, hard_cap 50
DefaultTarget == <<1, 4>>
DefaultHardCap == 50

\* The configurations scanned with: <<target_per_loc, hard_cap>>.
CxScales ==
    {<<<<0, 1>>, DefaultHardCap>>, <<DefaultTarget, DefaultHardCap>>,
     <<<<4, 1>>, DefaultHardCap>>, <<<<4, 1>>, 3>>}

\* max(target, 1e-6)
EffectiveTarget(target) ==
    IF target[1] * 1000000 < target[2] THEN <<1, 1000000>> ELSE target

\* The score curve of analyze with `>` for `>=` in the hard-cap test.
ScoreOfStrictCap(raw, loc, target, hardCap) ==
    IF raw > hardCap THEN <<0, 1>>
    ELSE LET t == EffectiveTarget(target)
             d == loc * t[1]
         IN  <<100 * (d - Min(raw * t[2], d)), d>>

\* The score curve of analyze, as a rational: 0 at the hard cap, else
\* max(0, 100 * (1 - min(1, (raw / loc) / max(target, 1e-6)))).
ScoreOf(raw, loc, target, hardCap) ==
    IF raw >= hardCap THEN <<0, 1>>
    ELSE LET t == EffectiveTarget(target)
             d == loc * t[1]
         IN  <<100 * (d - Min(raw * t[2], d)), d>>

\* A source of the complexity analyzer: the statements of the file when
\* the parser accepts it.
CxParsed(body) == [parse_ok |-> TRUE, body |-> body]
CxUnparsed == [parse_ok |-> FALSE, body |-> <<>>]

\* safe_parse(source)[0]
TreeOf(src) == ParseModule(src.body)

\* `if x: pass`
NewIf == IfS(NameE, <<PassS>>, <<>>)

InsertAt(list, i, x) == SubSeq(list, 1, i) \o <<x>> \o SubSeq(list, i + 1, Len(list))

RECURSIVE InsertInList(_)
RECURSIVE InsertInNode(_)
\* The statement lists obtained from `list` by adding one `if` statement,
\* at any place in it or inside one of its statements.
InsertInList(list) ==
    {InsertAt(list, i, NewIf) : i \in 0..Len(list)}
    \cup UNION {{[list EXCEPT ![i] = m] : m \in InsertInNode(list[i])} :
                    i \in 1..Len(list)}

InsertInNode(n) ==
    IF n.kind \notin {"If", "While", "Try", "ExceptHandler"} THEN {}
    ELSE {[n EXCEPT !.body = b] : b \in InsertInList(n.body)}
         \cup (IF n.kind = "If"
               THEN {[n EXCEPT !.orelse = b] : b \in InsertInList(n.orelse)}
               ELSE {})
         \cup UNION {{[n EXCEPT !.handlers[i] = h] : h \in InsertInNode(n.handlers[i])} :
                        i \in 1..Len(n.handlers)}
         \cup (IF n.finalbody # <<>>
               THEN {[n EXCEPT !.finalbody = b] : b \in InsertInList(n.finalbody)}
               ELSE {})

CxStart ==
    /\ cxIdx = 1
    /\ cxResult = [scores |-> <<>>, raw |-> <<>>, per_loc |-> <<>>]
    /\ cxTrace = <<>>

\* A scan of one parsed file under the default configuration.
CxInit ==
    /\ cxPaths = <<"a.py">>
    /\ \E s \in CxStmts(MaxDepth) : cxSources = [p \in {"a.py"} |-> CxParsed(<<s>>)]
    /\ cxLoc = [p \in {"a.py"} |-> MaxLoc]
    /\ cxTarget = DefaultTarget
    /\ cxHardCap = DefaultHardCap
    /\ CxStart
    /\ CxOnly

\* A scan of simple.py and complex.py: complex.py is simple.py with one
\* more `if`, or a copy of it, or a file of one plain statement, or a file
\* the parser rejects.
ScoreInit ==
    /\ cxPaths = <<"simple.py", "complex.py">>
    /\ \E s \in CxStmts(MaxFileDepth) :
          \E c \in {CxParsed(b) : b \in InsertInList(<<s>>)}
                    \cup {CxParsed(<<s>>), CxUnparsed}
                    \cup {CxParsed(<<l>>) : l \in CxLeaves} :
             cxSources = [p \in {"simple.py", "complex.py"} |->
                            IF p = "simple.py" THEN CxParsed(<<s>>) ELSE c]
    /\ \E l \in 1..MaxLoc, m \in 1..MaxLoc :
          /\ m \in {l, MaxLoc}
          /\ cxLoc = [p \in {"simple.py", "complex.py"} |->
                         IF p = "simple.py" THEN l ELSE m]
    /\ \E scale \in CxScales : cxTarget = scale[1] /\ cxHardCap = scale[2]
    /\ CxStart
    /\ CxOnly

\* One iteration of the loop of analyze, for the file at cxIdx.
CxAnalyzeFile ==
    /\ cxIdx <= Len(cxPaths)
    /\ LET path == cxPaths[cxIdx]
           src == cxSources[path]
           st == Compute(TreeOf(src))
           loc == Max(1, cxLoc[path])
       IN  IF ~src.parse_ok
           THEN /\ cxResult' = [scores |-> (path :> <<100, 1>>) @@ cxResult.scores,
                                raw |-> (path :> 0) @@ cxResult.raw,
                                per_loc |-> (path :> <<0, 1>>) @@ cxResult.per_loc]
                /\ cxTrace' = cxTrace
           ELSE /\ cxResult' =
                      [scores |-> (path :> ScoreOf(st.complexity, loc, cxTarget, cxHardCap))
                                    @@ cxResult.scores,
                       raw |-> (path :> st.complexity) @@ cxResult.raw,
                       per_loc |-> (path :> <<st.complexity, loc>>) @@ cxResult.per_loc]
                /\ cxTrace' = (path :> [log |-> st.log, stack |-> st.stack]) @@ cxTrace
    /\ cxIdx' = cxIdx + 1
    /\ UNCHANGED <<cxPaths, cxSources, cxLoc, cxTarget, cxHardCap, nonCxVars>>

CxNext == CxAnalyzeFile

SpecCx == CxInit /\ [][CxNext]_vars

\* for i in x: ..., with x: ..., try: ... except* E: ...
ForS(body) == CxNode("For", <<NameE, NameE>>, body, <<>>, <<>>, <<>>)
WithS(body) == CxNode("With", <<NameE>>, body, <<>>, <<>>, <<>>)
TryStarS(body, handlers) == CxNode("TryStar", <<>>, body, <<>>, handlers, <<>>)

RECURSIVE NestStmts(_)
\* The statements nested at most d deep, with every kind of compound
\* statement that the visitor has a method for, and the try statement of
\* `except*`, for which it has none.
NestStmts(d) ==
    IF d = 0 THEN {PassS, ReturnS}
    ELSE LET S == NestStmts(d - 1)
         IN  {PassS, ReturnS}
             \cup {IfS(NameE, <<s>>, <<>>) : s \in S}
             \cup {IfS(NameE, <<PassS>>, <<s>>) : s \in S}
             \cup {ForS(<<s>>) : s \in S}
             \cup {WhileS(NameE, <<s>>) : s \in S}
             \cup {WithS(<<s>>) : s \in S}
             \cup {TryS(<<s>>, <<HandlerN(<<PassS>>)>>, <<>>) : s \in S}
             \cup {TryS(<<PassS>>, <<HandlerN(<<s>>)>>, <<>>) : s \in S}
             \cup {TryS(<<PassS>>, <<HandlerN(<<PassS>>), HandlerN(<<ReturnS>>)>>, <<PassS>>)}
             \cup {TryS(<<PassS>>, <<>>, <<s>>) : s \in S}
             \cup {TryStarS(<<s>>, <<HandlerN(<<PassS>>)>>) : s \in S}

\* A scan of one parsed file of nested compound statements, its tree with
\* the module at most MaxDepth deep.
NestInit ==
    /\ cxPaths = <<"a.py">>
    /\ \E s \in NestStmts(MaxDepth - 1) : cxSources = [p \in {"a.py"} |-> CxParsed(<<s>>)]
    /\ cxLoc = [p \in {"a.py"} |-> MaxLoc]
    /\ cxTarget = DefaultTarget
    /\ cxHardCap = DefaultHardCap
    /\ CxStart
    /\ CxOnly

SpecNest == NestInit /\ [][CxNext]_vars
SpecScore == ScoreInit /\ [][CxNext]_vars

-----------------------------------------------------------------------------
(* DuplicationAnalyzer.analyze as a state machine                          *)

\* A source the parser rejects: only its text is used.
RawSource(text) == [parse_ok |-> FALSE, tree |-> NoTree, text |-> text]

\* A source the parser accepts; its text is the text of its tree.
ParsedSource(tree) == [parse_ok |-> TRUE, tree |-> tree, text |-> <<Unparse(tree)>>]

\* Texts are lists of lines, a line a list of tokens.
RawTexts ==
    {<<l>> : l \in SeqsUpTo(RawTokens, MaxTokens)}
    \cup {<<l, <<CommentMark, "a">>>> : l \in SeqsUpTo(RawTokens, 1)}
    \cup {<<l \o <<CommentMark, "b">>>> : l \in SeqsUpTo(RawTokens, 1)}

RawSources == {RawSource(t) : t \in RawTexts}
ParsedSources == {ParsedSource(t) : t \in ParsedTrees}

\* A scan of a.py and b.py, with or without a third file that copies b.py.
DupInitFrom(S) ==
    /\ dupPc = "start"
    /\ dupK \in 1..MaxK
    /\ dupW \in 1..MaxW
    /\ dupPaths \in {<<"a.py", "b.py">>, <<"a.py", "b.py", "c.py">>}
    /\ \E a \in S, b \in S :
          dupSources = [p \in Range(dupPaths) |-> IF p = "a.py" THEN a ELSE b]
    /\ dupTokens = [p \in {} |-> <<>>]
    /\ dupResult = [fingerprints |-> [p \in {} |-> <<>>],
                    ratios |-> [p \in {} |-> <<0, 1>>],
                    parser_success |-> [p \in {} |-> FALSE]]

DupInit == DupInitFrom(RawSources) /\ DupOnly
NormInit == DupInitFrom(ParsedSources) /\ DupOnly

\* analyze, the normalization loop
DupNormalize ==
    /\ dupPc = "start"
    /\ dupTokens' = [p \in Range(dupPaths) |-> NormalizeSource(dupSources[p]).tokens]
    /\ dupResult' = [dupResult EXCEPT !.parser_success =
                        [p \in Range(dupPaths) |-> NormalizeSource(dupSources[p]).success]]
    /\ dupPc' = "normalized"
    /\ UNCHANGED <<dupK, dupW, dupPaths, dupSources, nonDupVars>>

\* analyze, fingerprints and ratios
DupFinish ==
    /\ dupPc = "normalized"
    /\ LET fprints == [p \in Range(dupPaths) |-> Fingerprints(dupTokens[p], dupK, dupW)]
       IN  dupResult' = [dupResult EXCEPT
                            !.fingerprints = fprints,
                            !.ratios = [p \in Range(dupPaths) |->
                                            ComputeRatio(p, dupPaths, fprints)]]
    /\ dupPc' = "done"
    /\ UNCHANGED <<dupK, dupW, dupPaths, dupSources, dupTokens, nonDupVars>>

DupNext == DupNormalize \/ DupFinish

SpecDup == DupInit /\ [][DupNext]_vars
SpecNorm == NormInit /\ [][DupNext]_vars

-----------------------------------------------------------------------------
(* Claims about the duplication engine                                     *)

DupDone == dupPc = "done"
DupFiles == Range(dupPaths)
EffK == Max(1, dupK)
EffW == Max(1, dupW)

\* A and B hold a common contiguous run of n tokens.
SharedRun(A, B, n) ==
    \E i \in 1..Len(A), j \in 1..Len(B) :
        /\ i + n - 1 <= Len(A)
        /\ j + n - 1 <= Len(B)
        /\ SubSeq(A, i, i + n - 1) = SubSeq(B, j, j + n - 1)

\* C1: two token streams that share a run of at least k + w - 1 tokens have
\* a fingerprint hash in common.
C1_SharedRunSharesFingerprint ==
    DupDone =>
        \A f \in DupFiles, g \in DupFiles :
            SharedRun(dupTokens[f], dupTokens[g], EffK + EffW - 1) =>
                Range(dupResult.fingerprints[f])
                    \cap Range(dupResult.fingerprints[g]) # {}

\* Two different streams, longer than the run they share, with k, w > 1.
C1_Witness ==
    /\ DupDone
    /\ dupK = 2 /\ dupW = 2
    /\ dupTokens["a.py"] # dupTokens["b.py"]
    /\ Len(dupTokens["a.py"]) > 3 /\ Len(dupTokens["b.py"]) > 3
    /\ SharedRun(dupTokens["a.py"], dupTokens["b.py"], 3)

\* S_f
DistinctSet(f) == Range(dupResult.fingerprints[f])

RECURSIVE SumOthers(_, _, _)
\* Sum over the files g of P other than f of count[g].
SumOthers(P, f, count) ==
    IF P = {} THEN 0
    ELSE LET g == CHOOSE x \in P : TRUE
         IN  (IF g = f THEN 0 ELSE count[g]) + SumOthers(P \ {g}, f, count)

\* Entries of F_g whose hash lies in S_f, with multiplicity.
MultisetCount(f, g) ==
    Cardinality({i \in 1..Len(dupResult.fingerprints[g]) :
                    dupResult.fingerprints[g][i] \in DistinctSet(f)})

\* Distinct hashes of F_g that lie in S_f.
DistinctCount(f, g) ==
    Cardinality({h \in DistinctSet(f) :
                    \E i \in 1..Len(dupResult.fingerprints[g]) :
                        dupResult.fingerprints[g][i] = h})

\* min(1, n / max(1, |S_f|)) = ratio(f), as a comparison of rationals
RatioIs(f, n) ==
    LET d == Max(1, Cardinality(DistinctSet(f)))
        r == dupResult.ratios[f]
    IN  r[1] * d = Min(n, d) * r[2]

IsOne(r) == r[1] = r[2]
IsZero(r) == r[1] = 0

\* C3 as stated: in a scan of exactly two sources with identical token
\* streams, both ratios are 1.
C3_IdenticalStreamsRatioOne ==
    (DupDone /\ Len(dupPaths) = 2 /\ dupTokens["a.py"] = dupTokens["b.py"]) =>
        (IsOne(dupResult.ratios["a.py"]) /\ IsOne(dupResult.ratios["b.py"]))

\* C3 as amended: the same for identical non-empty token streams.
C3_IdenticalNonEmptyStreamsRatioOne ==
    (DupDone /\ Len(dupPaths) = 2 /\ dupTokens["a.py"] = dupTokens["b.py"]
        /\ dupTokens["a.py"] # <<>>) =>
        (IsOne(dupResult.ratios["a.py"]) /\ IsOne(dupResult.ratios["b.py"]))

\* Two identical streams whose fingerprint list repeats a hash.
C3_Witness ==
    /\ DupDone /\ Len(dupPaths) = 2
    /\ dupTokens["a.py"] = dupTokens["b.py"]
    /\ Len(dupResult.fingerprints["a.py"])
            > Cardinality(Range(dupResult.fingerprints["a.py"]))

\* C6: the fingerprint list is empty exactly for an empty token stream, a
\* non-empty stream shorter than k yields the single hash of its joined
\* tokens, and an empty fingerprint list gives ratio 0.
C6_EmptyAndShortStreams ==
    DupDone =>
        \A f \in DupFiles :
            /\ dupResult.fingerprints[f] = <<>> <=> dupTokens[f] = <<>>
            /\ (dupTokens[f] # <<>> /\ Len(dupTokens[f]) < EffK) =>
                    dupResult.fingerprints[f] = <<StableHash(dupTokens[f])>>
            /\ dupResult.fingerprints[f] = <<>> => IsZero(dupResult.ratios[f])

\* A scan holding an empty stream (of a text that is only a comment) and
\* a non-empty stream shorter than k.
C6_Witness ==
    /\ DupDone
    /\ \E f \in DupFiles, g \in DupFiles :
          /\ dupTokens[f] = <<>> /\ dupSources[f].text # <<<<>>>>
          /\ dupTokens[g] # <<>> /\ Len(dupTokens[g]) < EffK
          /\ ~IsZero(dupResult.ratios[g])

-----------------------------------------------------------------------------
(* Claims about normalization                                              *)

\* The node kinds whose name is an identifier or a literal value.
NamedKinds ==
    {"Name", "Attribute", "Constant", "FunctionDef", "AsyncFunctionDef",
     "ClassDef", "arg", "keyword", "ExceptHandler"}

RECURSIVE SameUpToNames(_, _)
\* t2 is t1 with identifiers renamed and literals replaced by literals.
SameUpToNames(t1, t2) ==
    /\ t1.kind = t2.kind
    /\ t1.kind \notin NamedKinds => t1.name = t2.name
    /\ Len(t1.kids) = Len(t2.kids)
    /\ \A i \in 1..Len(t1.kids) : SameUpToNames(t1.kids[i], t2.kids[i])

\* C4: renaming every identifier and replacing every literal of a parseable
\* file leaves its fingerprint list unchanged, so that two files differing
\* only in such names have ratio > 0 against each other.
C4_RenamingKeepsFingerprints ==
    DupDone =>
        \A f \in DupFiles, g \in DupFiles :
            (/\ f # g
             /\ dupSources[f].parse_ok /\ dupSources[g].parse_ok
             /\ SameUpToNames(dupSources[f].tree, dupSources[g].tree)) =>
                /\ dupResult.fingerprints[f] = dupResult.fingerprints[g]
                /\ ~IsZero(dupResult.ratios[f])
                /\ ~IsZero(dupResult.ratios[g])

-----------------------------------------------------------------------------
(* Claims about the complexity engine                                      *)

CxDone == cxIdx > Len(cxPaths)
CxParsedFiles == {p \in Range(cxPaths) : cxSources[p].parse_ok}

RECURSIVE NodesOf(_)
\* Every node of a tree.
NodesOf(n) == {n} \cup UNION {NodesOf(Children(n)[i]) : i \in 1..Len(Children(n))}

\* The events of kind ev logged for node id while file p was traversed.
EventsOf(p, ev, id) ==
    {i \in 1..Len(cxTrace[p].log) :
        cxTrace[p].log[i].ev = ev /\ cxTrace[p].log[i].id = id}

\* What the traversal of file p added for its BoolOp node b.
BoolOpAdded(p, b) ==
    IF EventsOf(p, "boolop", b.id) = {} THEN 0
    ELSE Cardinality(EventsOf(p, "boolop", b.id)) * Max(0, Len(b.exprs) - 1)

\* C7: every boolean-operator chain with n operands adds exactly
\* max(0, n - 1) to raw, wherever it occurs.
C7_BoolOpAddsOperandsMinusOne ==
    CxDone =>
        \A p \in CxParsedFiles :
            \A b \in NodesOf(TreeOf(cxSources[p])) :
                b.kind = "BoolOp" => BoolOpAdded(p, b) = Max(0, Len(b.exprs) - 1)

\* The statements of the branches of the if statements of a tree that the
\* visitor is to visit: bodies, and else branches but for their elifs.
BranchStatements(tree) ==
    UNION {Range(n.body) \cup {c \in Range(n.orelse) : c.kind # "If"} :
              n \in {m \in NodesOf(tree) : m.kind = "If"}}

IfNodes(tree) == {n \in NodesOf(tree) : n.kind = "If"}

\* C8: each if of an if / else-if chain is counted exactly once as a control
\* construct, each branch body is traversed exactly once, and raw is at
\* least the number of ifs.
C8_EachIfCountedOnce ==
    CxDone =>
        \A p \in CxParsedFiles :
            LET tree == TreeOf(cxSources[p])
            IN  /\ \A n \in IfNodes(tree) :
                        Cardinality(EventsOf(p, "enter", n.id)) = 1
                /\ \A c \in BranchStatements(tree) :
                        Cardinality(EventsOf(p, "visit", c.id)) = 1
                /\ cxResult.raw[p] >= Cardinality(IfNodes(tree))

\* A traversed chain if / elif / elif / else.
C8_Witness ==
    /\ CxDone
    /\ \E p \in CxParsedFiles :
          \E n \in IfNodes(TreeOf(cxSources[p])) :
              /\ Len(n.orelse) = 1 /\ n.orelse[1].kind = "If"
              /\ Len(n.orelse[1].orelse) = 1 /\ n.orelse[1].orelse[1].kind = "If"
              /\ n.orelse[1].orelse[1].orelse # <<>>
              /\ cxResult.raw[p] > 3

\* a <= b, for rationals with positive denominators
RatLe(a, b) == a[1] * b[2] <= b[1] * a[2]

\* min(1, (raw / max(1, loc)) / max(target, 1e-6)) = r
CapRatioIs(raw, loc, target, r) ==
    LET t == EffectiveTarget(target)
        l == Max(1, loc)
    IN  IF raw * t[2] >= l * t[1] THEN r[1] = r[2]
        ELSE r[1] * l * t[1] = raw * t[2] * r[2]

\* score = max(0, 100 * (1 - r)) for some r with P(r): 100 - score is 100 r
ScoreIsCurve(p) ==
    LET sc == cxResult.scores[p]
    IN  /\ RatLe(<<0, 1>>, sc)
        /\ CapRatioIs(cxResult.raw[p], cxLoc[p], cxTarget,
                      <<100 * sc[2] - sc[1], 100 * sc[2]>>)

\* complex.py is simple.py with one more if statement
BranchAdded ==
    /\ cxSources["simple.py"].parse_ok /\ cxSources["complex.py"].parse_ok
    /\ cxSources["complex.py"].body \in InsertInList(cxSources["simple.py"].body)

\* C9: the score is 0 from the hard cap on and follows the curve below it;
\* of two files with the same loc the one with the larger raw never has the
\* larger score; and adding a branch strictly increases raw.
C9_ScoreCurveMonotone ==
    CxDone =>
        /\ \A p \in CxParsedFiles :
              IF cxResult.raw[p] >= cxHardCap
              THEN cxResult.scores[p][1] = 0
              ELSE ScoreIsCurve(p)
        /\ \A p \in CxParsedFiles, q \in CxParsedFiles :
              (cxLoc[p] = cxLoc[q] /\ cxResult.raw[p] < cxResult.raw[q]) =>
                  RatLe(cxResult.scores[q], cxResult.scores[p])
        /\ BranchAdded => cxResult.raw["complex.py"] > cxResult.raw["simple.py"]

\* simple.py is below the hard cap with a positive score, complex.py is
\* simple.py with a branch added that takes it to the hard cap.
C9_Witness ==
    /\ CxDone
    /\ BranchAdded
    /\ cxLoc["simple.py"] = cxLoc["complex.py"]
    /\ cxResult.raw["simple.py"] < cxHardCap
    /\ cxResult.scores["simple.py"][1] > 0
    /\ cxResult.raw["complex.py"] >= cxHardCap

-----------------------------------------------------------------------------
(* Floating-point arithmetic.  A float is <<m, e>>, the number m * 2^e,    *)
(* with m = 0 and e = 0, or 2^(Precision-1) <= |m| < 2^Precision.  Every   *)
(* operation rounds its exact result to the nearest float, ties to the     *)
(* even significand, as IEEE 754 binary64 does with 53 bits.               *)

Precision == 5      \* bits of the significand (the code's floats have 53)

Pow2(k) == 2 ^ k
Abs(x) == IF x < 0 THEN -x ELSE x

Zero == <<0, 0>>
FNeg(a) == <<-a[1], a[2]>>

RECURSIVE Scale(_, _, _)
\* n/d * 2^e rewritten so that 2^(Precision-1) <= n/d < 2^Precision
Scale(n, d, e) ==
    IF n >= Pow2(Precision) * d THEN Scale(n, 2 * d, e + 1)
    ELSE IF n < Pow2(Precision - 1) * d THEN Scale(2 * n, d, e - 1)
    ELSE <<n, d, e>>

\* The float nearest to n/d * 2^e, for n >= 0 and d > 0
RoundPos(n, d, e) ==
    IF n = 0 THEN Zero
    ELSE LET s == Scale(n, d, e)
             q == s[1] \div s[2]
             r == s[1] % s[2]
             m == IF 2 * r > s[2] \/ (2 * r = s[2] /\ q % 2 = 1) THEN q + 1 ELSE q
         IN  IF m = Pow2(Precision) THEN <<Pow2(Precision - 1), s[3] + 1>>
             ELSE <<m, s[3]>>

\* The float nearest to n/d * 2^e, for d > 0
Round(n, d, e) == IF n < 0 THEN FNeg(RoundPos(-n, d, e)) ELSE RoundPos(n, d, e)

\* A decimal literal n/d of the source, and float(n)
Lit(n, d) == Round(n, d, 0)
FromInt(n) == Round(n, 1, 0)
One == FromInt(1)
Hundred == FromInt(100)

\* n / d for ints n and d
IntDiv(n, d) == Round(n, d, 0)

FMul(a, b) == Round(a[1] * b[1], 1, a[2] + b[2])

FDiv(a, b) ==
    IF b[1] < 0 THEN Round(-a[1], -b[1], a[2] - b[2])
    ELSE Round(a[1], b[1], a[2] - b[2])

\* a + b; an operand below a quarter of the last place of the other one
\* leaves the other one as it is
FAdd(a, b) ==
    IF a[1] = 0 THEN b
    ELSE IF b[1] = 0 THEN a
    ELSE IF a[2] - b[2] > Precision + 1 THEN a
    ELSE IF b[2] - a[2] > Precision + 1 THEN b
    ELSE LET e == Min(a[2], b[2])
         IN  Round(a[1] * Pow2(a[2] - e) + b[1] * Pow2(b[2] - e), 1, e)

FSub(a, b) == FAdd(a, FNeg(b))

\* a < b and a <= b: the rounded difference has the sign of the exact one
FLt(a, b) == FSub(a, b)[1] < 0
FLe(a, b) == FSub(a, b)[1] <= 0

FMax(a, b) == IF FLt(a, b) THEN b ELSE a
FMin(a, b) == IF FLt(b, a) THEN b ELSE a

RECURSIVE FSum(_)
\* sum(list): 0 + list[0] + list[1] + ..., rounded after every addition
FSum(list) ==
    IF list = <<>> THEN Zero
    ELSE FAdd(FSum(SubSeq(list, 1, Len(list) - 1)), list[Len(list)])

RECURSIVE ExactSum(_, _)
\* The sum of the floats of list as an integer multiple of 2^e
ExactSum(list, e) ==
    IF list = <<>> THEN 0
    ELSE (IF Head(list)[1] = 0 THEN 0 ELSE Head(list)[1] * Pow2(Head(list)[2] - e))
         + ExactSum(Tail(list), e)

RECURSIVE MinExp(_)
MinExp(list) ==
    IF list = <<>> THEN 0
    ELSE IF Head(list)[1] = 0 THEN MinExp(Tail(list))
    ELSE Min(Head(list)[2], MinExp(Tail(list)))

\* statistics.mean(list): the exact sum divided by the length, rounded once
FMean(list) == Round(ExactSum(list, MinExp(list)), Len(list), MinExp(list))

-----------------------------------------------------------------------------
(* Architecture engine.  A string is the sequence of its characters.       *)

Slash == "/"
Backslash == "\\"
Dot == "."

\* str.replace(old, new) for one-character old and new
Replace(str, old, new) == [i \in 1..Len(str) |-> IF str[i] = old THEN new ELSE str[i]]

\* str.startswith(prefix)
StartsWith(str, prefix) ==
    /\ Len(prefix) <= Len(str)
    /\ SubSeq(str, 1, Len(prefix)) = prefix

RECURSIVE SplitHead(_)
\* str.split(".")[0]
SplitHead(str) ==
    IF str = <<>> \/ Head(str) = Dot THEN <<>>
    ELSE <<Head(str)>> \o SplitHead(Tail(str))

\* The value None of a layer that was not found.
NoLayer == "None"

\* Insertion at the front, whatever the lengths of the keys.
InsertAtFront(sorted, kv) == <<kv>> \o sorted

RECURSIVE InsertByLength(_, _)
\* Insert item kv into a list sorted by key length, longest first, behind
\* the items whose key is as long (sorted is stable).
InsertByLength(sorted, kv) ==
    IF sorted = <<>> THEN <<kv>>
    ELSE IF Len(Head(sorted)[1]) >= Len(kv[1])
         THEN <<Head(sorted)>> \o InsertByLength(Tail(sorted), kv)
         ELSE <<kv>> \o sorted

RECURSIVE SortByLength(_, _)
\* sorted(items, key=lambda kv: len(kv[0]), reverse=True), items[1..n]
SortByLength(items, n) ==
    IF n = 0 THEN <<>>
    ELSE InsertByLength(SortByLength(items, n - 1), items[n])

\* The prefixes in the order of the configuration.
UnsortedPrefixes(mapping) == mapping

\* ArchitectureAnalyzer.__init__: self.sorted_prefixes
SortedPrefixes(mapping) == SortByLength(mapping, Len(mapping))

RECURSIVE FirstMatch(_, _)
\* The loop of _layer_for_path and _layer_for_module.
FirstMatch(prefixes, normalized) ==
    IF prefixes = <<>> THEN NoLayer
    ELSE IF StartsWith(normalized, Head(prefixes)[1]) THEN Head(prefixes)[2]
         ELSE FirstMatch(Tail(prefixes), normalized)

LayerForPath(mapping, path) ==
    FirstMatch(SortedPrefixes(mapping), Replace(path, Backslash, Slash))

LayerForModule(mapping, module) ==
    FirstMatch(SortedPrefixes(mapping), Replace(module, Dot, Slash))

\* The import statements of a tree, in the order of ast.walk:
\* `import n1, n2` and `from module import ...` (module "" for None).
ImportN(names) == [kind |-> "Import", names |-> names, module |-> <<>>]
ImportFromN(module) == [kind |-> "ImportFrom", names |-> <<>>, module |-> module]

RECURSIVE IterImports(_)
\* iter_imports(tree): the pairs <<full name, root segment>>
IterImports(stmts) ==
    IF stmts = <<>> THEN <<>>
    ELSE LET n == Head(stmts)
         IN  (IF n.kind = "Import"
              THEN [i \in 1..Len(n.names) |-> <<n.names[i], SplitHead(n.names[i])>>]
              ELSE <<<<n.module, SplitHead(n.module)>>>>)
             \o IterImports(Tail(stmts))

\* full_name or root
FullOrRoot(pair) == IF pair[1] # <<>> THEN pair[1] ELSE pair[2]

ArchitectureViolation(file, fromLayer, toLayer, importName) ==
    [file |-> file, from_layer |-> fromLayer, to_layer |-> toLayer,
     import_name |-> importName]

RECURSIVE ImportLoopLastFirst(_, _, _, _, _)
\* The inner loop of analyze with each violation put behind the later ones.
ImportLoopLastFirst(mapping, allowed, path, fromLayer, imports) ==
    IF imports = <<>> THEN <<>>
    ELSE LET targetLayer == LayerForModule(mapping, FullOrRoot(Head(imports)))
             rest == ImportLoopLastFirst(mapping, allowed, path, fromLayer, Tail(imports))
         IN  IF targetLayer = NoLayer THEN rest
             ELSE IF <<fromLayer, targetLayer>> \notin Range(allowed)
                  THEN rest \o <<ArchitectureViolation(path, fromLayer, targetLayer,
                                                       Head(imports)[1])>>
                  ELSE rest

RECURSIVE ImportLoop(_, _, _, _, _)
\* The inner loop of analyze over the imports of one file.
ImportLoop(mapping, allowed, path, fromLayer, imports) ==
    IF imports = <<>> THEN <<>>
    ELSE LET targetLayer == LayerForModule(mapping, FullOrRoot(Head(imports)))
             rest == ImportLoop(mapping, allowed, path, fromLayer, Tail(imports))
         IN  IF targetLayer = NoLayer THEN rest
             ELSE IF <<fromLayer, targetLayer>> \notin Range(allowed)
                  THEN <<ArchitectureViolation(path, fromLayer, targetLayer,
                                               Head(imports)[1])>> \o rest
                  ELSE rest

\* The strings of the scans
PCa == <<"c", "/", "a">>
PCua == <<"c", "/", "u", "/", "a">>
PCuaWin == <<"c", "\\", "u", "\\", "a">>
PXa == <<"x", "/", "a">>
KC == <<"c">>
KCu == <<"c", "/", "u">>
KU == <<"u">>
KEmpty == <<>>
MCa == <<"c", ".", "a">>
MCua == <<"c", ".", "u", ".", "a">>
MCu == <<"c", ".", "u">>
MU == <<"u">>
MX == <<"x">>

ArchMappings ==
    { << <<KC, "core">>, <<KCu, "ui">> >>,
      << <<KCu, "ui">>, <<KU, "api">>, <<KC, "core">> >>,
      << <<KU, "ui">>, <<KC, "core">> >>,
      << <<KEmpty, "api">>, <<KC, "core">> >> }

ArchEdges ==
    { <<>>,
      << <<"core", "core">>, <<"ui", "ui">> >>,
      << <<"ui", "core">>, <<"core", "core">>, <<"api", "api">> >>,
      << <<"core", "ui">>, <<"core", "api">>, <<"ui", "api">> >> }

ArchPathLists == { <<PCa, PCua>>, <<PCuaWin, PXa>>, <<PXa, PCa>> }

ArchParsed(stmts) == [parse_ok |-> TRUE, stmts |-> stmts]
ArchUnparsed == [parse_ok |-> FALSE, stmts |-> <<>>]

ArchFileSources ==
    { ArchUnparsed,
      ArchParsed(<<>>),
      ArchParsed(<<ImportN(<<MCua>>)>>),
      ArchParsed(<<ImportN(<<MCa, MU>>)>>),
      ArchParsed(<<ImportFromN(MCu), ImportN(<<MCa>>)>>),
      ArchParsed(<<ImportFromN(<<>>), ImportN(<<MX>>)>>),
      ArchParsed(<<ImportN(<<MCua>>), ImportN(<<MX, MCua>>)>>) }

ArchInit ==
    /\ archMapping \in ArchMappings
    /\ archAllowed \in ArchEdges
    /\ archPaths \in ArchPathLists
    /\ archSources \in [Range(archPaths) -> ArchFileSources]
    /\ archIdx = 1
    /\ violations = <<>>
    /\ ArchOnly

\* One iteration of the outer loop of analyze, for the file at archIdx.
ArchAnalyzeFile ==
    /\ archIdx <= Len(archPaths)
    /\ LET path == archPaths[archIdx]
           src == archSources[path]
           fromLayer == LayerForPath(archMapping, path)
       IN  violations' =
              IF ~src.parse_ok \/ fromLayer = NoLayer THEN violations
              ELSE violations \o ImportLoop(archMapping, archAllowed, path, fromLayer,
                                            IterImports(src.stmts))
    /\ archIdx' = archIdx + 1
    /\ UNCHANGED <<archMapping, archAllowed, archPaths, archSources, nonArchVars>>

ArchNext == ArchAnalyzeFile

SpecArch == ArchInit /\ [][ArchNext]_vars

-----------------------------------------------------------------------------
(* Claims about the architecture engine                                    *)

ArchDone == archIdx > Len(archPaths)

\* The layer of the longest prefix of the mapping that str starts with.
LongestPrefixLayer(str) ==
    LET matching == {i \in 1..Len(archMapping) : StartsWith(str, archMapping[i][1])}
    IN  IF matching = {} THEN NoLayer
        ELSE LET i == CHOOSE j \in matching :
                        \A l \in matching : Len(archMapping[l][1]) <= Len(archMapping[j][1])
             IN  archMapping[i][2]

PathLayer(path) == LongestPrefixLayer(Replace(path, Backslash, Slash))
ModuleLayer(module) == LongestPrefixLayer(Replace(module, Dot, Slash))

\* The import occurrences of module m in file f
Occurrences(f, m) ==
    LET imports == IterImports(archSources[f].stmts)
    IN  {i \in 1..Len(imports) : imports[i][1] = m}

\* The violations emitted for file f and module m
Emitted(f, m) == {i \in 1..Len(violations) :
                     violations[i].file = f /\ violations[i].import_name = m}

ArchModules == {MCa, MCua, MCu, MU, MX, <<>>}

\* File f importing module m is against the edge policy.
Forbidden(f, m) ==
    /\ archSources[f].parse_ok
    /\ PathLayer(f) # NoLayer
    /\ ModuleLayer(m) # NoLayer
    /\ <<PathLayer(f), ModuleLayer(m)>> \notin Range(archAllowed)

\* C10: a violation (f, L_f, L_m, m) is emitted for an import occurrence of
\* m in a parseable file f if and only if f classifies to L_f, m classifies
\* to L_m and (L_f, L_m) is not an allowed edge; none is emitted for an
\* unlayered file, an unlayered module or an allowed pair.
C10_ViolationIffForbiddenEdge ==
    ArchDone =>
        \A f \in Range(archPaths), m \in ArchModules :
            IF Forbidden(f, m)
            THEN /\ Cardinality(Emitted(f, m)) = Cardinality(Occurrences(f, m))
                 /\ \A i \in Emitted(f, m) :
                       /\ violations[i].from_layer = PathLayer(f)
                       /\ violations[i].to_layer = ModuleLayer(m)
            ELSE Emitted(f, m) = {}

\* A scan that emitted a violation for a nested prefix, and passed over an
\* import of an allowed pair, over one of an unlayered module and over an
\* unlayered file with imports.
C10_Witness ==
    /\ ArchDone
    /\ \E f \in Range(archPaths), m \in ArchModules :
          /\ Forbidden(f, m)
          /\ Occurrences(f, m) # {}
          /\ ModuleLayer(m) = "ui"
          /\ \E i \in 1..Len(archMapping) : archMapping[i][1] = KC
    /\ \E f \in Range(archPaths), m \in ArchModules :
          /\ archSources[f].parse_ok /\ PathLayer(f) # NoLayer
          /\ ModuleLayer(m) # NoLayer
          /\ Occurrences(f, m) # {}
          /\ ~Forbidden(f, m)
    /\ \E f \in Range(archPaths) :
          /\ archSources[f].parse_ok /\ PathLayer(f) # NoLayer
          /\ Occurrences(f, MX) # {} /\ ModuleLayer(MX) = NoLayer
    /\ violations # <<>>

\* The strings the scans classify
ArchStrings == {PCa, PCua, PCuaWin, PXa, KU} \cup ArchModules

\* Some key of the mapping is a prefix of str.
SomeKeyMatches(str) ==
    \E i \in 1..Len(archMapping) : StartsWith(str, archMapping[i][1])

\* The key of the mapping whose layer the classifier returned for str: no
\* longer key of the mapping is a prefix of str.
ReturnedLongest(str, layer) ==
    \E i \in 1..Len(archMapping) :
        /\ StartsWith(str, archMapping[i][1])
        /\ archMapping[i][2] = layer
        /\ \A j \in 1..Len(archMapping) :
              StartsWith(str, archMapping[j][1]) =>
                  Len(archMapping[j][1]) <= Len(archMapping[i][1])

\* C11: the classifier returns the layer of the longest key that is a
\* prefix of the normalized path or module name, and no layer exactly when
\* no key is a prefix.
C11_LongestPrefixClassifier ==
    \A str \in ArchStrings :
        LET asPath == Replace(str, Backslash, Slash)
            asModule == Replace(str, Dot, Slash)
        IN  /\ IF SomeKeyMatches(asPath)
               THEN ReturnedLongest(asPath, LayerForPath(archMapping, str))
               ELSE LayerForPath(archMapping, str) = NoLayer
            /\ IF SomeKeyMatches(asModule)
               THEN ReturnedLongest(asModule, LayerForModule(archMapping, str))
               ELSE LayerForModule(archMapping, str) = NoLayer

\* A scan whose mapping lists the key c before the longer key c/u, and that
\* classified a file under c/u (written with backslashes) and a module
\* c.u.a to the layer of c/u.
C11_Witness ==
    /\ ArchDone
    /\ Len(archMapping) = 2 /\ archMapping[1][1] = KC /\ archMapping[2][1] = KCu
    /\ PCuaWin \in Range(archPaths)
    /\ LayerForPath(archMapping, PCuaWin) = "ui"
    /\ \E i \in 1..Len(violations) :
          violations[i].file = PCuaWin /\ violations[i].from_layer = "ui"
                                       /\ violations[i].to_layer = "ui"
                                       /\ violations[i].import_name = MCua

\* C12: an import with an empty module name never produces a violation.
C12_EmptyModuleNeverViolates ==
    \A i \in 1..Len(violations) : violations[i].import_name # <<>>

RECURSIVE ForbiddenImports(_, _)
\* The imports of file f, in import order, that are against the policy
ForbiddenImports(f, imports) ==
    IF imports = <<>> THEN <<>>
    ELSE (IF Forbidden(f, Head(imports)[1])
          THEN <<ArchitectureViolation(f, PathLayer(f), ModuleLayer(Head(imports)[1]),
                                       Head(imports)[1])>>
          ELSE <<>>)
         \o ForbiddenImports(f, Tail(imports))

RECURSIVE ExpectedUpTo(_, _)
\* The forbidden imports of the first n files of paths, file by file
ExpectedUpTo(paths, n) ==
    IF n = 0 THEN <<>>
    ELSE ExpectedUpTo(paths, n - 1)
         \o ForbiddenImports(paths[n], IterImports(archSources[paths[n]].stmts))

RECURSIVE AnalyzeFiles(_, _)
\* ArchitectureAnalyzer.analyze over the first n files of paths
AnalyzeFiles(paths, n) ==
    IF n = 0 THEN <<>>
    ELSE LET path == paths[n]
             src == archSources[path]
             fromLayer == LayerForPath(archMapping, path)
         IN  AnalyzeFiles(paths, n - 1)
             \o (IF ~src.parse_ok \/ fromLayer = NoLayer THEN <<>>
                 ELSE ImportLoop(archMapping, archAllowed, path, fromLayer,
                                 IterImports(src.stmts)))

Reverse(seq) == [i \in 1..Len(seq) |-> seq[Len(seq) + 1 - i]]

\* How often v occurs in list
CountIn(list, v) == Cardinality({i \in 1..Len(list) : list[i] = v})

\* C13: the violations come in the order of the files and, within a file,
\* in the order of its imports, none is dropped as a duplicate, and the same
\* files in another order give the same violations as often.
C13_ViolationOrder ==
    /\ violations = ExpectedUpTo(archPaths, archIdx - 1)
    /\ ArchDone =>
          LET permuted == AnalyzeFiles(Reverse(archPaths), Len(archPaths))
          IN  /\ Len(permuted) = Len(violations)
              /\ \A i \in 1..Len(violations) :
                    CountIn(permuted, violations[i]) = CountIn(violations, violations[i])

\* A scan in which the first file imports the same forbidden module twice
\* and the second file a forbidden module as well.
C13_Witness ==
    /\ ArchDone
    /\ Len(violations) >= 3
    /\ violations[1] = violations[2]
    /\ violations[1].file = archPaths[1]
    /\ violations[Len(violations)].file = archPaths[2]
    /\ AnalyzeFiles(Reverse(archPaths), Len(archPaths)) # violations


-----------------------------------------------------------------------------
(* Runner.run: the analyzers' results and the loop that builds one         *)
(* FileReport per file.  A path is the sequence of its segments.           *)

\* root_path, an absolute path (the files are listed by their resolved
\* paths and made relative to it)
RootPath == <<"/", "r">>

\* str(root_path / rel_path)
JoinRoot(rel) == RootPath \o rel

RelA == <<"a.py">>
RelB == <<"tests", "b.py">>

RelSub == <<"a", "y.py">>
RelDash == <<"a-b", "x.py">>
RelV == <<"vendor", "v.py">>
RelG == <<"build", "g.py">>

\* fs.detect_role, for the paths of the scans: the first role of ROLE_HINTS
\* with a hint in the path
DetectRole(path) ==
    CASE "tests" \in Range(path) -> "test"
      [] "tests" \notin Range(path) /\ "vendor" \in Range(path) -> "vendor"
      [] {"tests", "vendor"} \cap Range(path) = {} /\ "build" \in Range(path) -> "generated"
      [] OTHER -> "default"

\* The characters of the path components of the scans, as code points
Codes(part) ==
    CASE part = "/" -> <<47>>
      [] part = "r" -> <<114>>
      [] part = "a" -> <<97>>
      [] part = "a-b" -> <<97, 45, 98>>
      [] part = "a.py" -> <<97, 46, 112, 121>>
      [] part = "b.py" -> <<98, 46, 112, 121>>
      [] part = "x.py" -> <<120, 46, 112, 121>>
      [] part = "y.py" -> <<121, 46, 112, 121>>
      [] part = "tests" -> <<116, 101, 115, 116, 115>>

RECURSIVE CodesLess(_, _)
\* str < str: the first differing character decides, a proper prefix is less
CodesLess(s, t) ==
    IF t = <<>> THEN FALSE
    ELSE IF s = <<>> THEN TRUE
    ELSE IF Head(s) # Head(t) THEN Head(s) < Head(t)
    ELSE CodesLess(Tail(s), Tail(t))

RECURSIVE PathLess(_, _)
\* Path.__lt__: the tuples of components are compared, component by
\* component
PathLess(p, q) ==
    IF q = <<>> THEN FALSE
    ELSE IF p = <<>> THEN TRUE
    ELSE IF Head(p) # Head(q) THEN CodesLess(Codes(Head(p)), Codes(Head(q)))
    ELSE PathLess(Tail(p), Tail(q))

RECURSIVE SortPaths(_)
\* sorted(fs.iter_python_files(...)) made relative to the root: the files
\* are sorted as Path objects by their absolute paths
SortPaths(found) ==
    IF found = {} THEN <<>>
    ELSE LET first == CHOOSE p \in found :
                          \A q \in found \ {p} : PathLess(JoinRoot(p), JoinRoot(q))
         IN  <<first>> \o SortPaths(found \ {first})

\* The sets of files that the scans enumerate
RunPathSets == {{}, {RelA}, {RelA, RelB}, {RelSub, RelDash}}

\* dict.get(key, default)
Get(dict, key, default) == IF key \in DOMAIN dict THEN dict[key] ELSE default

\* math.log1p(loc) in thousandths, for the line counts of the scans
Log1pMilli(loc) ==
    CASE loc = 0 -> 0
      [] loc = 2 -> 1099
      [] loc = 300 -> 5707
      [] loc = 400 -> 5994

Log1p(loc) == Lit(Log1pMilli(loc), 1000)

RunLocs == {0, 2, 400}

\* What Runner.run reads of one file: its line count, whether it parses,
\* its annotation coverage, and what the duplication and complexity
\* engines find in it (overlaps and distinct fingerprints, raw complexity).
\* `fault` is "none" for a file that read_text decodes and ast.parse either
\* accepts or rejects with SyntaxError.
RunFile(loc, ok, overlaps, distinct, raw) ==
    [loc |-> loc, parse_ok |-> ok, coverage |-> Zero, fault |-> "none",
     overlaps |-> overlaps, distinct |-> distinct, raw |-> IF ok THEN raw ELSE 0]

\* A file that read_text cannot read or decode (OSError, UnicodeDecodeError)
UnreadableFile == [RunFile(0, FALSE, 0, 0, 0) EXCEPT !.fault = "read"]

\* A file on which ast.parse raises another error than SyntaxError
\* (RecursionError or MemoryError on a very long expression)
ParserErrorFile == [RunFile(400, FALSE, 0, 0, 0) EXCEPT !.fault = "parser"]

RunFileKinds ==
    {RunFile(loc, ok, o[1], o[2], raw) :
        loc \in RunLocs, ok \in BOOLEAN, o \in {<<0, 0>>, <<1, 2>>, <<2, 1>>}, raw \in {0, 1}}
    \cup {UnreadableFile, ParserErrorFile}

\* The configurations scanned with: the metric weights in the order of the
\* dict (duplication, lint, typing, complexity), the pylint category
\* weights, the typing scale <<max_score_at_0, zero_score_at_20>> and the
\* complexity scale <<target_per_loc, hard_cap>>.
CategoryWeights(c, w, r, e) == ("C" :> c) @@ ("W" :> w) @@ ("R" :> r) @@ ("E" :> e)

DefaultCategoryWeights == CategoryWeights(Lit(1, 4), Lit(1, 2), Lit(4, 10), One)

\* weights.roles
RoleWeights(default, test, config, vendor, generated) ==
    ("default" :> default) @@ ("test" :> test) @@ ("config" :> config)
    @@ ("vendor" :> vendor) @@ ("generated" :> generated)

DefaultRoleWeights == RoleWeights(One, Lit(35, 100), Lit(35, 100), Lit(2, 10), Zero)

MaxIterations == 3  \* largest bootstrap.iterations of a scan
RngMod == 8         \* number of states of the random number generator

RunConfigOf(metrics, categories, typingScale) ==
    [metrics |-> metrics, pylint_categories |-> categories,
     roles |-> DefaultRoleWeights,
     bootstrap |-> [iterations |-> MaxIterations, seed |-> 1337],
     typing_error_scale |-> typingScale,
     complexity_scale |-> <<Lit(1, 4), DefaultHardCap>>]

RunConfigs ==
    { RunConfigOf(<<Lit(1, 4), Lit(3, 10), Lit(1, 5), Lit(1, 4)>>,
                  DefaultCategoryWeights, <<Hundred, Zero>>),
      RunConfigOf(<<Lit(1, 10), Lit(1, 10), Lit(1, 2), Lit(1, 10)>>,
                  DefaultCategoryWeights, <<Hundred, FromInt(20)>>),
      RunConfigOf(<<Zero, Zero, Zero, Zero>>,
                  CategoryWeights(Zero, Zero, Zero, FromInt(60)), <<Hundred, FromInt(20)>>),
      RunConfigOf(<<One, One, One, One>>,
                  CategoryWeights(Zero, One, Zero, FromInt(60)), <<Hundred, Zero>>) }

\* min(1.0, overlaps / max(1, len(set_self))), 0.0 without fingerprints
RatioFloat(overlaps, distinct) ==
    IF distinct = 0 THEN Zero
    ELSE FMin(One, IntDiv(overlaps, Max(1, distinct)))

\* The result of ComplexityAnalyzer.analyze for one file, in floats
ComplexityOfFile(file, scale) ==
    IF ~file.parse_ok THEN [score |-> Hundred, raw |-> 0, per_loc |-> Zero]
    ELSE LET loc == Max(1, file.loc)
             per == IntDiv(file.raw, loc)
             ratio == FMin(One, FDiv(per, FMax(scale[1], Lit(1, 1000000))))
         IN  [score |-> IF file.raw >= scale[2] THEN Zero
                        ELSE FMax(Zero, FMul(Hundred, FSub(One, ratio))),
              raw |-> file.raw, per_loc |-> per]

\* ---- LintAnalyzer.analyze ----

\* str[:1].upper()
Upper(c) ==
    CASE c = "c" -> "C" [] c = "w" -> "W" [] c = "r" -> "R" [] c = "e" -> "E"
      [] c = "u" -> "U" [] OTHER -> c

FirstUpper(str) == IF str = <<>> THEN "" ELSE Upper(str[1])

\* One message of pylint's JSON output
Message(path, symbol, type) == [path |-> path, symbol |-> symbol, type |-> type]

\* msg_id[:1].upper() if msg_id else message.get("type", "").upper()[:1]
Category(message) ==
    IF message.symbol # <<>> THEN FirstUpper(message.symbol) ELSE FirstUpper(message.type)

DefaultCounts == << <<"C", 0>>, <<"W", 0>>, <<"R", 0>>, <<"E", 0>> >>

\* counts[path][category] += 1, the category added to the dict when new
Bump(catCounts, cat) ==
    IF \E i \in 1..Len(catCounts) : catCounts[i][1] = cat
    THEN [i \in 1..Len(catCounts) |->
             IF catCounts[i][1] = cat THEN <<cat, catCounts[i][2] + 1>> ELSE catCounts[i]]
    ELSE Append(catCounts, <<cat, 1>>)

RECURSIVE CountMessages(_, _)
CountMessages(messages, counts) ==
    IF messages = <<>> THEN counts
    ELSE LET m == Head(messages)
             old == Get(counts, m.path, DefaultCounts)
         IN  CountMessages(Tail(messages),
                           (m.path :> Bump(old, Category(m))) @@ counts)

RECURSIVE WeightedTotal(_, _)
\* total += weight * count over cat_counts.items(), from total = 0.0
WeightedTotal(catCounts, weights) ==
    IF catCounts = <<>> THEN Zero
    ELSE LET last == catCounts[Len(catCounts)]
         IN  FAdd(WeightedTotal(SubSeq(catCounts, 1, Len(catCounts) - 1), weights),
                  FMul(Get(weights, last[1], Zero), FromInt(last[2])))

\* weighted_scores[path] = max(0.0, 100.0 - total)
LintScore(catCounts, weights) ==
    FMax(Zero, FSub(Hundred, WeightedTotal(catCounts, weights)))

Degraded(reason) ==
    [counts |-> <<>>, weighted_scores |-> <<>>, degraded |-> TRUE, missing_reason |-> reason]

\* The return codes of pylint that analyze accepts
PylintStatuses == {0, 2, 4, 8, 16, 32}

\* What subprocess.run of pylint does: it raises (OSError, TimeoutExpired)
\* or the process ran and completed with a return code, its stderr and its
\* stdout, which is a JSON list of messages or no JSON at all.
PylintRun(launch, returncode, stderr, json_ok, messages) ==
    [launch |-> launch, returncode |-> returncode, stderr |-> stderr,
     json_ok |-> json_ok, messages |-> messages]

LintOutcomes ==
    { PylintRun("oserror", 0, "", FALSE, <<>>),
      PylintRun("timeout", 0, "", FALSE, <<>>),
      PylintRun("ran", 1, "", TRUE, <<>>),
      PylintRun("ran", 6, "usage", TRUE, <<>>),
      PylintRun("ran", 0, "", FALSE, <<>>),
      PylintRun("ran", 0, "", TRUE, <<>>),
      PylintRun("ran", 32, "warn", TRUE, <<>>),
      PylintRun("ran", 4,  "", TRUE,
          <<Message(JoinRoot(RelA), <<"u", "n", "u", "s", "e", "d">>, <<"w">>),
            Message(RelA, <<>>, <<"e", "r", "r", "o", "r">>),
            Message(JoinRoot(RelA), <<>>, <<>>)>>),
      PylintRun("ran", 2, "", TRUE,
          <<Message(JoinRoot(RelA), <<>>, <<"e", "r", "r", "o", "r">>),
            Message(JoinRoot(RelA), <<>>, <<"w", "a", "r", "n">>),
            Message(JoinRoot(RelA), <<>>, <<"e", "r", "r", "o", "r">>)>>) }

\* A variant that accepts every return code
LintAnalyzeAnyStatus(outcome, weights) ==
    CASE outcome.launch # "ran" -> Degraded("pylint unavailable: exc")
      [] outcome.launch = "ran" /\ ~outcome.json_ok ->
            Degraded("pylint produced invalid JSON")
      [] OTHER ->
            LET counts == CountMessages(outcome.messages, <<>>)
            IN  [counts |-> counts,
                 weighted_scores |-> [path \in DOMAIN counts |-> LintScore(counts[path], weights)],
                 degraded |-> FALSE, missing_reason |-> "None"]

LintAnalyze(outcome, weights) ==
    CASE outcome.launch # "ran" -> Degraded("pylint unavailable: exc")
      [] outcome.launch = "ran" /\ outcome.returncode \notin PylintStatuses ->
            Degraded(IF outcome.stderr # "" THEN outcome.stderr ELSE "pylint run failed")
      [] outcome.launch = "ran" /\ outcome.returncode \in PylintStatuses
                                /\ ~outcome.json_ok ->
            Degraded("pylint produced invalid JSON")
      [] OTHER ->
            LET counts == CountMessages(outcome.messages, <<>>)
            IN  [counts |-> counts,
                 weighted_scores |-> [path \in DOMAIN counts |-> LintScore(counts[path], weights)],
                 degraded |-> FALSE, missing_reason |-> "None"]

\* ---- TypingAnalyzer.analyze ----

\* The return codes of mypy that analyze accepts
MypyStatuses == {0, 1}

\* What subprocess.run of mypy does; lines holds the path and the type of
\* each line of stdout that MYPY_ERROR_RE matches.
MypyRun(launch, returncode, stderr, lines) ==
    [launch |-> launch, returncode |-> returncode, stderr |-> stderr, lines |-> lines]

TypingOutcomes ==
    { MypyRun("oserror", 0, "", <<>>),
      MypyRun("ran", 2, "", <<>>),
      MypyRun("ran", 0, "", <<>>),
      MypyRun("ran", 1, "", << <<RelA, "error">>, <<RelB, "note">> >>),
      MypyRun("ran", 1, "",
          << <<JoinRoot(RelA), "error">>, <<JoinRoot(RelA), "note">>, <<RelA, "error">>,
             <<RelA, "error">> >>) }

RECURSIVE CountErrors(_, _)
CountErrors(lines, errors) ==
    IF lines = <<>> THEN errors
    ELSE LET path == Head(lines)[1]
         IN  CountErrors(Tail(lines),
                         IF Head(lines)[2] = "error"
                         THEN (path :> Get(errors, path, 0) + 1) @@ errors
                         ELSE errors)

\* The score of one file of loc_map
TypingScore(errCount, loc, scale) ==
    LET density == IntDiv(errCount * 1000, Max(1, loc))
    IN  IF FLe(scale[2], density) THEN Zero
        ELSE FMax(Zero, FSub(scale[1], FMul(FDiv(scale[1], scale[2]), density)))

TypingAnalyze(outcome, paths, files, scale) ==
    CASE outcome.launch # "ran" ->
            [errors |-> <<>>, scores |-> <<>>, degraded |-> TRUE,
             missing_reason |-> "mypy unavailable: exc"]
      [] outcome.launch = "ran" /\ outcome.returncode \notin MypyStatuses ->
            [errors |-> <<>>, scores |-> <<>>, degraded |-> TRUE,
             missing_reason |-> IF outcome.stderr # "" THEN outcome.stderr
                                ELSE "mypy run failed"]
      [] OTHER ->
            LET errors == CountErrors(outcome.lines, <<>>)
            IN  [errors |-> errors,
                 scores |-> [path \in Range(paths) |->
                                TypingScore(Get(errors, path, 0), files[path].loc, scale)],
                 degraded |-> FALSE, missing_reason |-> "None"]

\* ---- Runner.run ----

\* _weighted_grade(metrics, weights)
WeightedGrade(metrics, weights) ==
    FDiv(FSum(<<FMul(FMul(FSub(One, metrics.duplication_ratio), weights[1]), Hundred),
                FMul(metrics.lint_weighted_score, weights[2]),
                FMul(metrics.typing_score, weights[3]),
                FMul(metrics.complexity_score, weights[4])>>),
         FMax(Lit(1, 1000000), FSum(weights)))

\* A variant in which only the lint adapter is asked for a reason
MissingReasonsOfLint(lintRes, typingRes) ==
    IF lintRes.degraded THEN <<lintRes.missing_reason>> ELSE <<>>

\* missing_reasons of a FileReport
MissingReasons(lintRes, typingRes) ==
    (IF lintRes.degraded
     THEN <<IF lintRes.missing_reason \notin {"None", ""} THEN lintRes.missing_reason
            ELSE "pylint degraded">>
     ELSE <<>>)
    \o (IF typingRes.degraded
        THEN <<IF typingRes.missing_reason \notin {"None", ""} THEN typingRes.missing_reason
               ELSE "mypy degraded">>
        ELSE <<>>)

\* The names one iteration adds to degraded_metrics
DegradedNames(lintRes, typingRes) ==
    (IF lintRes.degraded THEN {"lint"} ELSE {})
    \cup (IF typingRes.degraded THEN {"typing"} ELSE {})

\* base_conf
BaseConfidence(loc, parsed) ==
    FMul(FMin(One, FDiv(Log1p(loc), Log1p(300))), IF parsed THEN One ELSE Lit(6, 10))

\* A variant in which the lint confidence weighs on every metric
FileConfidenceLintWide(base, duplicationConf, lintConf, typingConf, complexityConf) ==
    LET conf == <<FMul(FMul(base, duplicationConf), lintConf), FMul(base, lintConf),
                  FMul(FMul(base, typingConf), lintConf),
                  FMul(FMul(base, complexityConf), lintConf)>>
    IN  [duplication |-> conf[1], lint |-> conf[2], typing |-> conf[3],
         complexity |-> conf[4], overall |-> FMin(One, FMean(conf))]

\* file_conf, with its overall entry
FileConfidence(base, duplicationConf, lintConf, typingConf, complexityConf) ==
    LET conf == <<FMul(base, duplicationConf), FMul(base, lintConf),
                  FMul(base, typingConf), FMul(base, complexityConf)>>
    IN  [duplication |-> conf[1], lint |-> conf[2], typing |-> conf[3],
         complexity |-> conf[4], overall |-> FMin(One, FMean(conf))]

\* The FileReport one iteration of the loop over loc_map builds from the
\* results of the lint and typing adapters
FileReportWith(rel, lintRes, typingRes) ==
    LET file == runFiles[rel]
        key == JoinRoot(rel)
        lintConf == IF lintRes.degraded THEN Lit(4, 10) ELSE One
        typingConf == IF typingRes.degraded THEN Lit(4, 10) ELSE One
        parsed == Get(duplication.parser_success, rel, FALSE)
        duplicationConf == IF parsed THEN One ELSE Lit(1, 2)
        complexityConf == IF file.parse_ok THEN One ELSE Lit(1, 2)
        base == BaseConfidence(file.loc, file.parse_ok)
        metrics ==
            [duplication_ratio |-> Get(duplication.ratios, rel, Zero),
             lint_counts |-> Get(lintRes.counts, key, DefaultCounts),
             lint_weighted_score |-> Get(lintRes.weighted_scores, key, Hundred),
             typing_errors |-> Get(typingRes.errors, key, 0),
             typing_score |-> Get(typingRes.scores, key, Hundred),
             annotation_coverage |-> file.coverage,
             cognitive_complexity |-> Get(complexity.raw, rel, 0),
             complexity_score |-> Get(complexity.scores, rel, Hundred),
             complexity_per_loc |-> Get(complexity.per_loc, rel, Zero)]
    IN  [path |-> rel, loc |-> file.loc, role |-> DetectRole(JoinRoot(rel)),
         metrics |-> metrics,
         grade |-> WeightedGrade(metrics, runConfig.metrics),
         confidence |-> FileConfidence(base, duplicationConf, lintConf, typingConf,
                                       complexityConf),
         missing_reasons |-> MissingReasons(lintRes, typingRes)]

FileReportOf(rel) == FileReportWith(rel, lint, typing)

\* ---- _aggregate_project ----

SummaryKeys == {"duplication", "lint", "typing", "complexity", "grade"}

\* totals and weight_totals before the loop
AggStart ==
    [totals |-> [k \in SummaryKeys |-> Zero], weight_totals |-> [k \in SummaryKeys |-> Zero]]

\* One iteration of the loop over files
AggregateFile(acc, file, roleWeights) ==
    LET role_weight == Get(roleWeights, file.role, Get(roleWeights, "default", One))
        factor == FMul(role_weight, FromInt(file.loc))
        add == [duplication |->
                    FMul(FMul(FSub(One, file.metrics.duplication_ratio), factor), Hundred),
                lint |-> FMul(file.metrics.lint_weighted_score, factor),
                typing |-> FMul(file.metrics.typing_score, factor),
                complexity |-> FMul(file.metrics.complexity_score, factor),
                grade |-> FMul(file.grade, factor)]
    IN  [totals |-> [k \in SummaryKeys |-> FAdd(acc.totals[k], add[k])],
         weight_totals |-> [k \in SummaryKeys |-> FAdd(acc.weight_totals[k], factor)]]

\* The dict returned after the loop
AggregateReturn(acc) ==
    [k \in SummaryKeys |->
        IF acc.weight_totals[k] # Zero
        THEN FDiv(acc.totals[k], FMax(Lit(1, 1000000), acc.weight_totals[k]))
        ELSE Zero]

RECURSIVE AggregateLoop(_, _, _)
AggregateLoop(acc, files, roleWeights) ==
    IF files = <<>> THEN acc
    ELSE AggregateLoop(AggregateFile(acc, Head(files), roleWeights), Tail(files), roleWeights)

AggregateProject(files, roleWeights) ==
    AggregateReturn(AggregateLoop(AggStart, files, roleWeights))

\* A FileReport as _aggregate_project reads it: every metric score and the
\* grade are `score`, the duplication ratio is 1 - score / 100.
AggFileOf(role, loc, score) ==
    [role |-> role, loc |-> loc,
     metrics |-> [duplication_ratio |-> FSub(One, FDiv(score, Hundred)),
                  lint_weighted_score |-> score, typing_score |-> score,
                  complexity_score |-> score],
     grade |-> score]

AggRoles == {"default", "test", "vendor", "generated"}
AggLocs == {0, 1, 3, 7}
AggScores == {Zero, FromInt(50), Hundred}

AggFileKinds == {AggFileOf(role, loc, score) : role \in AggRoles, loc \in AggLocs,
                                               score \in AggScores}

\* _aggregate_project is called on up to two reports, with the default
\* role weights or with weights that count only generated files.
AggInit ==
    /\ aggFiles \in {<<>>} \cup {<<f>> : f \in AggFileKinds}
                         \cup {<<f, g>> : f \in AggFileKinds, g \in AggFileKinds}
    /\ aggRoleWeights \in {DefaultRoleWeights, RoleWeights(Zero, Zero, Zero, Zero, One)}
    /\ aggIdx = 1
    /\ aggTotals = AggStart.totals
    /\ aggWeightTotals = AggStart.weight_totals
    /\ aggResult = <<>>
    /\ AggOnly

\* One iteration of the loop over files.
AggIterate ==
    /\ aggResult = <<>>
    /\ aggIdx <= Len(aggFiles)
    /\ LET acc == AggregateFile([totals |-> aggTotals, weight_totals |-> aggWeightTotals],
                                aggFiles[aggIdx], aggRoleWeights)
       IN  /\ aggTotals' = acc.totals
           /\ aggWeightTotals' = acc.weight_totals
    /\ aggIdx' = aggIdx + 1
    /\ UNCHANGED <<aggFiles, aggRoleWeights, aggResult, nonAggVars>>

\* The return after the loop.
AggReturn ==
    /\ aggResult = <<>>
    /\ aggIdx > Len(aggFiles)
    /\ aggResult' = AggregateReturn([totals |-> aggTotals,
                                     weight_totals |-> aggWeightTotals])
    /\ UNCHANGED <<aggFiles, aggRoleWeights, aggIdx, aggTotals, aggWeightTotals,
                   nonAggVars>>

AggNext == AggIterate \/ AggReturn

SpecAgg == AggInit /\ [][AggNext]_vars

\* ---- _bootstrap_interval ----

\* A variant in which every call draws from one shared generator
RngShared(seed) == bootRng

\* Random(seed) is a deterministic generator; its state is modelled as a
\* number below RngMod that every draw advances.
RngSeed(seed) == seed % RngMod
RngNext(state) == (5 * state + 3) % RngMod

\* rng.choice(values) for the generator in `state`
Choice(values, state) == values[(state % Len(values)) + 1]

RECURSIVE Resample(_, _, _)
\* [rng.choice(values) for _ in values] with `n` draws left, and the state
\* of the generator afterwards
Resample(values, n, state) ==
    IF n = 0 THEN [sample |-> <<>>, state |-> state]
    ELSE LET rest == Resample(values, n - 1, RngNext(state))
         IN  [sample |-> <<Choice(values, state)>> \o rest.sample, state |-> rest.state]

RECURSIVE Samples(_, _, _)
\* The means of `iterations` resamples
Samples(values, iterations, state) ==
    IF iterations = 0 THEN <<>>
    ELSE LET r == Resample(values, Len(values), state)
         IN  <<FMean(r.sample)>> \o Samples(values, iterations - 1, r.state)

RECURSIVE InsertFloat(_, _)
InsertFloat(sorted, x) ==
    IF sorted = <<>> THEN <<x>>
    ELSE IF FLt(x, Head(sorted)) THEN <<x>> \o sorted
    ELSE <<Head(sorted)>> \o InsertFloat(Tail(sorted), x)

RECURSIVE SortFloats(_)
\* samples.sort()
SortFloats(list) ==
    IF list = <<>> THEN <<>>
    ELSE InsertFloat(SortFloats(SubSeq(list, 1, Len(list) - 1)), list[Len(list)])

\* A variant that rounds away from zero
TruncUp(x) ==
    LET m == Abs(x[1])
        t == IF x[2] >= 0 THEN m * Pow2(x[2])
             ELSE (m + Pow2(-x[2]) - 1) \div Pow2(-x[2])
    IN  IF x[1] < 0 THEN -t ELSE t

\* int(x) for a float x: the integer part, toward zero
Trunc(x) ==
    LET m == Abs(x[1])
        t == IF x[2] >= 0 THEN m * Pow2(x[2]) ELSE m \div Pow2(-x[2])
    IN  IF x[1] < 0 THEN -t ELSE t

\* lower_idx and upper_idx for n samples
LowerIdx(n) == Max(0, Trunc(FMul(Lit(5, 100), FromInt(n - 1))))
UpperIdx(n) == Min(n - 1, Trunc(FMul(Lit(95, 100), FromInt(n - 1))))

\* samples[lower_idx] raises IndexError when no sample was drawn
BootstrapRaises(values, iterations) == values # <<>> /\ iterations <= 0

\* The interval returned with the generator in `state` at the first draw
BootstrapFrom(values, iterations, state) ==
    IF values = <<>> THEN <<Zero, Zero>>
    ELSE LET samples == SortFloats(Samples(values, iterations, state))
             n == Len(samples)
         IN  <<samples[LowerIdx(n) + 1], samples[UpperIdx(n) + 1]>>

BootstrapInterval(values, iterations, seed) ==
    BootstrapFrom(values, iterations, RngSeed(seed))

RECURSIVE RngAdvance(_, _)
\* The state of the generator after `draws` draws
RngAdvance(state, draws) ==
    IF draws = 0 THEN state ELSE RngAdvance(RngNext(state), draws - 1)

MaxCalls == 2       \* number of calls of _bootstrap_interval in a row

BootGrades == {<<>>, <<Zero, Hundred>>, <<Hundred, FromInt(50), Zero>>}
BootSeeds == {1337, 2}

\* No call of _bootstrap_interval has been made.
BootInit ==
    /\ bootCalls = <<>>
    /\ bootRng = 0
    /\ BootOnly

\* One call of _bootstrap_interval: it returns an interval or raises.  The
\* call record keeps the sorted sample means next to the result.
BootCall ==
    /\ Len(bootCalls) < MaxCalls
    /\ \E values \in BootGrades, iterations \in 0..MaxIterations, seed \in BootSeeds :
          LET start == RngSeed(seed)
              raised == BootstrapRaises(values, iterations)
          IN  /\ bootCalls' = Append(bootCalls,
                    [values |-> values, iterations |-> iterations, seed |-> seed,
                     raised |-> raised,
                     samples |-> IF values = <<>> THEN <<>>
                                 ELSE SortFloats(Samples(values, iterations, start)),
                     interval |-> IF raised THEN <<>>
                                  ELSE BootstrapFrom(values, iterations, start)])
              /\ bootRng' = IF values = <<>> THEN bootRng
                            ELSE RngAdvance(start, iterations * Len(values))
    /\ UNCHANGED nonBootVars

BootNext == BootCall

SpecBoot == BootInit /\ [][BootNext]_vars

\* ---- Runner.run, continued ----

\* sorted(degraded_metrics)
SortedNames(names) ==
    (IF "lint" \in names THEN <<"lint">> ELSE <<>>)
    \o (IF "typing" \in names THEN <<"typing">> ELSE <<>>)

\* statistics.mean of one confidence over the reports, 0.0 without reports
MeanConfidence(reports, metric) ==
    IF reports = <<>> THEN Zero
    ELSE FMean([i \in 1..Len(reports) |-> reports[i].confidence[metric]])

\* The ProjectReport of the scan
ProjectReportOf(reports, names, config) ==
    [summary |-> AggregateProject(reports, config.roles),
     role_weights |-> config.roles,
     confidence |->
        [per_metric |-> [m \in {"duplication", "lint", "typing", "complexity"} |->
                            MeanConfidence(reports, m)],
         intervals |-> BootstrapInterval([i \in 1..Len(reports) |-> reports[i].grade],
                                         config.bootstrap.iterations,
                                         config.bootstrap.seed),
         degraded |-> SortedNames(names)]]

\* A scan of no file, of a.py alone, of a.py with tests/b.py, or of a/y.py
\* with a-b/x.py.
RunInit ==
    /\ runPc = "read"
    /\ runConfig \in RunConfigs
    /\ \E found \in RunPathSets : runPaths = SortPaths(found)
    /\ \E a \in RunFileKinds :
          /\ RelA \notin Range(runPaths) => a = RunFile(0, TRUE, 0, 0, 0)
          /\ runFiles = [p \in Range(runPaths) |->
                            IF p = RelA THEN a ELSE RunFile(400, TRUE, 1, 2, 1)]
    /\ duplication = <<>>
    /\ complexity = <<>>
    /\ pylintRun = <<>>
    /\ lint = <<>>
    /\ mypyRun = <<>>
    /\ typing = <<>>
    /\ runIdx = 1
    /\ files_report = <<>>
    /\ degraded_metrics = {}
    /\ project = <<>>
    /\ RunOnly

\* The loop that reads and parses the files: read_text and safe_parse let
\* every error but SyntaxError through, and run does not catch it.
RunRead ==
    /\ runPc = "read"
    /\ runPc' = IF \E p \in Range(runPaths) : runFiles[p].fault # "none"
                THEN "raised" ELSE "analyzers"
    /\ UNCHANGED <<runConfig, runPaths, runFiles, duplication, complexity, pylintRun, lint,
                   mypyRun, typing, runIdx, files_report, degraded_metrics, project,
                   nonRunVars>>

\* The duplication and the complexity analyzers are called on the sources.
RunAnalyzers ==
    /\ runPc = "analyzers"
    /\ duplication' =
          [ratios |-> [p \in Range(runPaths) |->
                          RatioFloat(runFiles[p].overlaps, runFiles[p].distinct)],
           parser_success |-> [p \in Range(runPaths) |-> runFiles[p].parse_ok]]
    /\ LET cx == [p \in Range(runPaths) |->
                     ComplexityOfFile(runFiles[p], runConfig.complexity_scale)]
       IN  complexity' = [scores |-> [p \in Range(runPaths) |-> cx[p].score],
                          raw |-> [p \in Range(runPaths) |-> cx[p].raw],
                          per_loc |-> [p \in Range(runPaths) |-> cx[p].per_loc]]
    /\ runPc' = "lint"
    /\ UNCHANGED <<runConfig, runPaths, runFiles, pylintRun, lint, mypyRun, typing, runIdx,
                   files_report, degraded_metrics, project, nonRunVars>>

\* LintAnalyzer.analyze is called on the joined paths.
RunLint ==
    /\ runPc = "lint"
    /\ \E outcome \in LintOutcomes :
          /\ pylintRun' = outcome
          /\ lint' = LintAnalyze(outcome, runConfig.pylint_categories)
    /\ runPc' = "typing"
    /\ UNCHANGED <<runConfig, runPaths, runFiles, duplication, complexity, mypyRun, typing,
                   runIdx, files_report, degraded_metrics, project, nonRunVars>>

\* TypingAnalyzer.analyze is called on the joined paths and loc_map.
RunTyping ==
    /\ runPc = "typing"
    /\ \E outcome \in TypingOutcomes :
          /\ mypyRun' = outcome
          /\ typing' = TypingAnalyze(outcome, runPaths, runFiles,
                                     runConfig.typing_error_scale)
    /\ runPc' = "files"
    /\ UNCHANGED <<runConfig, runPaths, runFiles, duplication, complexity, pylintRun, lint,
                   runIdx, files_report, degraded_metrics, project, nonRunVars>>

\* One iteration of the loop over loc_map.
RunFileReport ==
    /\ runPc = "files"
    /\ runIdx <= Len(runPaths)
    /\ files_report' = Append(files_report, FileReportOf(runPaths[runIdx]))
    /\ degraded_metrics' = degraded_metrics \cup DegradedNames(lint, typing)
    /\ runIdx' = runIdx + 1
    /\ UNCHANGED <<runPc, runConfig, runPaths, runFiles, duplication, complexity, pylintRun,
                   lint, mypyRun, typing, project, nonRunVars>>

\* After the loop the project is aggregated and the report is built.
RunFinish ==
    /\ runPc = "files"
    /\ runIdx > Len(runPaths)
    /\ project' = ProjectReportOf(files_report, degraded_metrics, runConfig)
    /\ runPc' = "done"
    /\ UNCHANGED <<runConfig, runPaths, runFiles, duplication, complexity, pylintRun, lint,
                   mypyRun, typing, runIdx, files_report, degraded_metrics, nonRunVars>>

RunNext == RunRead \/ RunAnalyzers \/ RunLint \/ RunTyping \/ RunFileReport \/ RunFinish

SpecRun == RunInit /\ [][RunNext]_vars

-----------------------------------------------------------------------------
(* count_annotation_coverage.  A tree is the sequence of its nodes in the *)
(* order of ast.walk.  A parameter list is the sequence of its            *)
(* parameters, each TRUE when it has an annotation; vararg and kwarg are  *)
(* "None", "plain" or "annotated".                                        *)

MaxParams == 1
MaxDefs == 2

ParamLists == UNION {[1..n -> BOOLEAN] : n \in 0..MaxParams}
StarParams == {"None", "plain", "annotated"}

\* ast.FunctionDef, ast.AsyncFunctionDef and ast.Lambda nodes: node.returns
\* and node.args with its five fields
DefNode(kind, returns, posonlyargs, args, kwonlyargs, vararg, kwarg) ==
    [kind |-> kind, returns |-> returns, posonlyargs |-> posonlyargs, args |-> args,
     kwonlyargs |-> kwonlyargs, vararg |-> vararg, kwarg |-> kwarg]

\* a node that has no parameters: Module, ClassDef, Pass, ...
PlainNode(kind) == DefNode(kind, FALSE, <<>>, <<>>, <<>>, "None", "None")

FunctionKinds == {"FunctionDef", "AsyncFunctionDef"}

FunctionNodes ==
    {DefNode(k, r, po, a, ko, va, kw) :
        k \in FunctionKinds, r \in BOOLEAN, po \in ParamLists, a \in ParamLists,
        ko \in ParamLists, va \in StarParams, kw \in StarParams}

\* def f(a: int, /, b), async def g(x), lambda x: x, class C, def m(self, x: int) -> None
WalkNodes ==
    {PlainNode("ClassDef"),
     DefNode("Lambda", FALSE, <<>>, <<FALSE>>, <<>>, "None", "None"),
     DefNode("FunctionDef", FALSE, <<TRUE>>, <<FALSE>>, <<>>, "None", "None"),
     DefNode("AsyncFunctionDef", FALSE, <<>>, <<FALSE>>, <<>>, "None", "None"),
     DefNode("FunctionDef", TRUE, <<>>, <<FALSE, TRUE>>, <<>>, "None", "None")}

\* The trees: a module of one function definition of any shape, and
\* modules of up to MaxDefs nodes of the kinds above.
CovTrees ==
    {<<PlainNode("Module"), n>> : n \in FunctionNodes}
    \cup {<<PlainNode("Module")>> \o t : t \in UNION {[1..n -> WalkNodes] : n \in 0..MaxDefs}}

\* the number of TRUE entries of a parameter list
RECURSIVE Annotations(_)
Annotations(params) ==
    IF params = <<>> THEN 0
    ELSE (IF Head(params) THEN 1 ELSE 0) + Annotations(Tail(params))

\* isinstance(node, (ast.FunctionDef, ast.AsyncFunctionDef))
IsFunctionDef(node) == node.kind \in FunctionKinds

\* list(node.args.args) + list(node.args.kwonlyargs)
CountedArgs(node) == node.args \o node.kwonlyargs

\* what one function definition adds to `annotated`
AnnotatedOf(node) ==
    (IF node.returns THEN 1 ELSE 0) + Annotations(CountedArgs(node))
    + (IF node.vararg = "annotated" THEN 1 ELSE 0)
    + (IF node.kwarg = "annotated" THEN 1 ELSE 0)

\* what one function definition adds to `total`
TotalOf(node) ==
    1 + Len(CountedArgs(node))
    + (IF node.vararg # "None" THEN 1 ELSE 0)
    + (IF node.kwarg # "None" THEN 1 ELSE 0)

CovInit ==
    /\ covPc = "walk"
    /\ covTree \in CovTrees
    /\ covIdx = 1
    /\ covAnnotated = 0
    /\ covTotal = 0
    /\ covResult = <<>>
    /\ CovOnly

\* one iteration of `for node in ast.walk(tree)`
CovVisit ==
    /\ covPc = "walk"
    /\ covIdx <= Len(covTree)
    /\ LET node == covTree[covIdx] IN
         IF IsFunctionDef(node)
         THEN /\ covAnnotated' = covAnnotated + AnnotatedOf(node)
              /\ covTotal' = covTotal + TotalOf(node)
         ELSE UNCHANGED <<covAnnotated, covTotal>>
    /\ covIdx' = covIdx + 1
    /\ UNCHANGED <<covPc, covTree, covResult, nonCovVars>>

\* return annotated, total
CovReturn ==
    /\ covPc = "walk"
    /\ covIdx > Len(covTree)
    /\ covResult' = <<covAnnotated, covTotal>>
    /\ covPc' = "done"
    /\ UNCHANGED <<covTree, covIdx, covAnnotated, covTotal, nonCovVars>>

CovNext == CovVisit \/ CovReturn

SpecCov == CovInit /\ [][CovNext]_vars

-----------------------------------------------------------------------------
(* The command line, cli.main.  The report is what Runner.run returned;   *)
(* of its content only whether it conforms to the schema matters here.    *)

\* formats, from args.format
Formats(format) == IF format = "both" THEN {"json", "md"} ELSE {format}

\* out_dir: args.out or config.report.out_dir
OutDir(out) == IF out # "None" THEN out ELSE ".cq-out"

\* validate_report and validate_dict reject the report: jsonschema is
\* installed and the data does not conform (without jsonschema both
\* return at once)
Rejected(env) == env.jsonschema /\ ~env.conforms

\* The arguments that build_parser accepts and the surroundings of a run.
CliInit ==
    /\ cliPc = "start"
    /\ cliArgs \in [command : {"scan", "print-schema", "example-config"},
                     format : {"json", "md", "both"}, out : {"None", "out"}]
    /\ cliArgs.command # "scan" => cliArgs.format = "both" /\ cliArgs.out = "None"
    /\ cliEnv \in [jsonschema : BOOLEAN, conforms : BOOLEAN, out_exists : BOOLEAN,
                    run_returns : BOOLEAN]
    /\ cliArgs.command # "scan" =>
          cliEnv.conforms /\ cliEnv.run_returns /\ ~cliEnv.out_exists
    /\ cliErrors = <<>>
    /\ cliFiles = {}
    /\ cliDirs = IF cliEnv.out_exists THEN {OutDir(cliArgs.out)} ELSE {}
    /\ cliOutput = <<>>
    /\ cliExit = "none"
    /\ CliOnly

\* print-schema
CliPrintSchema ==
    /\ cliPc = "start"
    /\ cliArgs.command = "print-schema"
    /\ cliOutput' = Append(cliOutput, <<"stdout", "schema">>)
    /\ cliExit' = 0
    /\ cliPc' = "returned"
    /\ UNCHANGED <<cliArgs, cliEnv, cliErrors, cliFiles, cliDirs, nonCliVars>>

\* example-config
CliExampleConfig ==
    /\ cliPc = "start"
    /\ cliArgs.command = "example-config"
    /\ cliOutput' = Append(cliOutput, <<"stdout", "default config">>)
    /\ cliExit' = 0
    /\ cliPc' = "returned"
    /\ UNCHANGED <<cliArgs, cliEnv, cliErrors, cliFiles, cliDirs, nonCliVars>>

\* scan: the configuration is loaded and Runner.run is called; run ends
\* with validate_report, whose ValueError becomes the one entry of errors.
CliScan ==
    /\ cliPc = "start"
    /\ cliArgs.command = "scan"
    /\ IF cliEnv.run_returns
       THEN /\ cliErrors' = IF Rejected(cliEnv) THEN <<"validation error">> ELSE <<>>
            /\ cliPc' = "mkdir"
       ELSE /\ cliErrors' = cliErrors
            /\ cliPc' = "raised"
    /\ UNCHANGED <<cliArgs, cliEnv, cliFiles, cliDirs, cliOutput, cliExit, nonCliVars>>

\* out_dir.mkdir(parents=True, exist_ok=True)
CliMkdir ==
    /\ cliPc = "mkdir"
    /\ cliDirs' = cliDirs \cup {OutDir(cliArgs.out)}
    /\ cliPc' = "json"
    /\ UNCHANGED <<cliArgs, cliEnv, cliErrors, cliFiles, cliOutput, cliExit, nonCliVars>>

\* if "json" in formats: write_json_report, which calls validate_dict
\* before it writes; the ValidationError of validate_dict leaves main.
CliWriteJson ==
    /\ cliPc = "json"
    /\ IF "json" \notin Formats(cliArgs.format)
       THEN cliFiles' = cliFiles /\ cliPc' = "md"
       ELSE IF Rejected(cliEnv)
       THEN cliFiles' = cliFiles /\ cliPc' = "raised"
       ELSE cliFiles' = cliFiles \cup {"report.json"} /\ cliPc' = "md"
    /\ UNCHANGED <<cliArgs, cliEnv, cliErrors, cliDirs, cliOutput, cliExit, nonCliVars>>

\* if "md" in formats: write_markdown_report
CliWriteMd ==
    /\ cliPc = "md"
    /\ cliFiles' = IF "md" \in Formats(cliArgs.format) THEN cliFiles \cup {"report.md"}
                   ELSE cliFiles
    /\ cliPc' = "errors"
    /\ UNCHANGED <<cliArgs, cliEnv, cliErrors, cliDirs, cliOutput, cliExit, nonCliVars>>

\* if errors: print them to stderr and return 2; return 0 otherwise
CliReturn ==
    /\ cliPc = "errors"
    /\ cliOutput' = cliOutput \o [i \in 1..Len(cliErrors) |-> <<"stderr", cliErrors[i]>>]
    /\ cliExit' = IF cliErrors # <<>> THEN 2 ELSE 0
    /\ cliPc' = "returned"
    /\ UNCHANGED <<cliArgs, cliEnv, cliErrors, cliFiles, cliDirs, nonCliVars>>

CliNext ==
    \/ CliPrintSchema \/ CliExampleConfig \/ CliScan \/ CliMkdir \/ CliWriteJson
    \/ CliWriteMd \/ CliReturn

SpecCli == CliInit /\ [][CliNext]_vars

-----------------------------------------------------------------------------
(* Claims about the file reports                                           *)

InUnit(a) == FLe(Zero, a) /\ FLe(a, One)
InPercent(a) == FLe(Zero, a) /\ FLe(a, Hundred)

ConfidenceKeys == {"duplication", "lint", "typing", "complexity", "overall"}

\* The ranges of the metrics and confidences of a report
MetricsInRange(r) ==
    /\ InUnit(r.metrics.duplication_ratio)
    /\ InPercent(r.metrics.lint_weighted_score)
    /\ InPercent(r.metrics.typing_score)
    /\ InPercent(r.metrics.complexity_score)
    /\ \A k \in ConfidenceKeys : InUnit(r.confidence[k])

\* C5: in every FileReport, with non-negative weights, the duplication
\* ratio lies in [0,1], the lint, typing and complexity scores and the
\* grade lie in [0,100], and the five confidences lie in [0,1].
C5_FileReportRanges ==
    \A i \in 1..Len(files_report) :
        /\ MetricsInRange(files_report[i])
        /\ InPercent(files_report[i].grade)

\* The outcome of a pylint process that finds nothing
CleanPylintRun == PylintRun("ran", 0, "", TRUE, <<>>)

\* The report of the same file in the same scan had pylint found nothing
CleanLintReport(rel) ==
    FileReportWith(rel, LintAnalyze(CleanPylintRun, runConfig.pylint_categories), typing)

OnlyLintDegraded == lint.degraded /\ ~typing.degraded

\* C18 as stated: between a scan where only lint degrades and the same scan
\* where lint succeeds without findings, the metric values and every
\* confidence but the lint one are identical, the lint confidence is
\* reduced, and the degraded sets differ by 'lint'.
C18_OnlyLintConfidenceReduced ==
    \A i \in 1..Len(files_report) :
        OnlyLintDegraded =>
            LET d == files_report[i]
                c == CleanLintReport(d.path)
            IN  /\ d.metrics = c.metrics
                /\ \A k \in ConfidenceKeys \ {"lint"} : d.confidence[k] = c.confidence[k]
                /\ FLt(d.confidence.lint, c.confidence.lint)
                /\ degraded_metrics = {"lint"}

\* C18, amended: the metric values and the duplication, typing and
\* complexity confidences are identical; the lint confidence is 0.4 times
\* the one of the clean scan, so it is reduced unless it is 0 (a file of no
\* line), and the overall confidence, their mean, is never higher; the
\* degraded sets differ by 'lint'.
C18_LintDegradationEffect ==
    \A i \in 1..Len(files_report) :
        OnlyLintDegraded =>
            LET d == files_report[i]
                c == CleanLintReport(d.path)
            IN  /\ d.metrics = c.metrics
                /\ d.grade = c.grade
                /\ \A k \in {"duplication", "typing", "complexity"} :
                      d.confidence[k] = c.confidence[k]
                /\ d.confidence.lint = FMul(c.confidence.lint, Lit(4, 10))
                /\ FLe(d.confidence.lint, c.confidence.lint)
                /\ (d.loc > 0 => FLt(d.confidence.lint, c.confidence.lint))
                /\ FLe(d.confidence.overall, c.confidence.overall)
                /\ degraded_metrics = {"lint"}
                /\ d.missing_reasons = <<lint.missing_reason>>
                /\ c.missing_reasons = <<>>

\* Only lint degraded in a scan of two files; the first has lines.
C18_Witness ==
    /\ runPc = "done"
    /\ OnlyLintDegraded
    /\ Len(files_report) = 2
    /\ files_report[1].loc > 0
    /\ FLt(files_report[1].confidence.overall, CleanLintReport(RelA).confidence.overall)

\* C19: the missing_reasons of a file report are non-empty exactly when
\* the lint or the typing adapter degraded, also for a file that failed to
\* parse.
C19_MissingReasonsIffDegraded ==
    \A i \in 1..Len(files_report) :
        (files_report[i].missing_reasons # <<>>) <=> (lint.degraded \/ typing.degraded)

\* Only typing degraded in a scan whose first file failed to parse.
C19_Witness ==
    /\ Len(files_report) = 2
    /\ ~runFiles[RelA].parse_ok
    /\ typing.degraded
    /\ ~lint.degraded
    /\ files_report[1].missing_reasons = <<"mypy run failed">>

-----------------------------------------------------------------------------
(* Claims about the lint and typing adapters                               *)

LintHasRun == runPc \in {"typing", "files", "done"}
TypingHasRun == runPc \in {"files", "done"}

CategoriesOf(catCounts) == {catCounts[i][1] : i \in 1..Len(catCounts)}

\* The messages whose category is one of C, W, R, E
KnownMessages(messages) ==
    SelectSeq(messages, LAMBDA m : Category(m) \in {"C", "W", "R", "E"})

\* C14: a message whose category is not C, W, R or E (or that has neither
\* a symbol nor a type) is discarded: the counts of every path have only
\* the keys C, W, R, E, and the result is the one the adapter gives
\* without such messages.
C14_OnlyKnownCategories ==
    LintHasRun /\ ~lint.degraded =>
        /\ \A path \in DOMAIN lint.counts :
              CategoriesOf(lint.counts[path]) \subseteq {"C", "W", "R", "E"}
        /\ lint = LintAnalyze([pylintRun EXCEPT !.messages = KnownMessages(@)],
                              runConfig.pylint_categories)

\* The outcomes of the pylint process that the adapter degrades on
LintTrigger(run) ==
    \/ run.launch \in {"oserror", "timeout"}
    \/ run.returncode \notin {0, 2, 4, 8, 16, 32}
    \/ ~run.json_ok

\* C15: the lint adapter returns degraded = true, with empty counts and
\* scores and a reason, exactly when pylint cannot be launched, times out,
\* ends with a code outside {0,2,4,8,16,32} or prints invalid JSON; after
\* a degraded lint run every file report has lint_weighted_score 100, a
\* lint confidence of at most 0.4 and the reason in its missing_reasons.
C15_LintDegradedExactly ==
    LintHasRun =>
        /\ lint.degraded <=> LintTrigger(pylintRun)
        /\ lint.degraded =>
              /\ lint.counts = <<>>
              /\ lint.weighted_scores = <<>>
              /\ lint.missing_reason \notin {"None", ""}
              /\ \A i \in 1..Len(files_report) :
                    /\ files_report[i].metrics.lint_weighted_score = Hundred
                    /\ FLe(files_report[i].confidence.lint, Lit(4, 10))
                    /\ lint.missing_reason \in Range(files_report[i].missing_reasons)

\* A scan of two files ends after pylint ended with a code that is no
\* pylint status.
C15_Witness ==
    /\ runPc = "done"
    /\ Len(files_report) = 2
    /\ pylintRun.launch = "ran"
    /\ pylintRun.returncode = 6
    /\ lint.degraded
    /\ lint.missing_reason = "usage"

\* C16: with zero_score_at_20 = 0 the typing score of a file is 0 exactly
\* when its error density is positive, and a file without matched errors
\* gets max_score_at_0; with zero_score_at_20 > 0 the score is 0 from that
\* density on and max(0, max - (max / zero) * density) below it.
C16_TypingScoreScale ==
    TypingHasRun /\ ~typing.degraded =>
        \A path \in DOMAIN typing.scores :
            LET errs == Get(typing.errors, path, 0)
                density == IntDiv(errs * 1000, Max(1, runFiles[path].loc))
                max_score == runConfig.typing_error_scale[1]
                zero_at == runConfig.typing_error_scale[2]
                score == typing.scores[path]
            IN  /\ errs = 0 => score = max_score
                /\ zero_at = Zero => (score = Zero <=> errs > 0)
                /\ zero_at # Zero /\ FLe(zero_at, density) => score = Zero
                /\ zero_at # Zero /\ FLt(density, zero_at) =>
                      score = FMax(Zero, FSub(max_score,
                                              FMul(FDiv(max_score, zero_at), density)))

\* C29: when the typing adapter is not degraded, the typing_score of a
\* FileReport is the score the adapter computed for that file from its
\* error count and loc, typing_errors is the file's counted errors, and
\* the adapter stores its results under the keys the runner looks up.
C29_TypingScoreOfSameFile ==
    TypingHasRun /\ ~typing.degraded =>
        \A i \in 1..Len(files_report) :
            LET r == files_report[i]
                key == JoinRoot(r.path)
                errs == Len(SelectSeq(mypyRun.lines,
                                      LAMBDA l : l[1] = key /\ l[2] = "error"))
            IN  /\ key \in DOMAIN typing.scores
                /\ r.metrics.typing_errors = errs
                /\ r.metrics.typing_score =
                      TypingScore(errs, r.loc, runConfig.typing_error_scale)

-----------------------------------------------------------------------------
(* Claims about the project report                                         *)

\* C17: after any scan, also one of no file, project.confidence.degraded
\* is the sorted list with 'lint' iff the lint adapter degraded and
\* 'typing' iff the typing adapter degraded.
C17_DegradedListExact ==
    runPc = "done" =>
        project.confidence.degraded =
            (IF lint.degraded THEN <<"lint">> ELSE <<>>)
            \o (IF typing.degraded THEN <<"typing">> ELSE <<>>)

\* A report with every metric score and the grade at 100, and one with
\* every score and the grade at 0
PerfectFile(f) == f = AggFileOf(f.role, f.loc, Hundred)
WorthlessFile(f) == f = AggFileOf(f.role, f.loc, Zero)

\* The reports whose role has a weight other than 0
Weighted(files, roleWeights) ==
    SelectSeq(files, LAMBDA f : Get(roleWeights, f.role, Get(roleWeights, "default", One))
                                    # Zero)

PerfectProject ==
    /\ aggResult # <<>>
    /\ aggRoleWeights = DefaultRoleWeights
    /\ \A i \in 1..Len(aggFiles) :
          IF aggFiles[i].role = "generated" THEN WorthlessFile(aggFiles[i])
          ELSE PerfectFile(aggFiles[i])

\* C20: with the default role weights, when every non-generated file has
\* every metric score and the grade at 100 and every generated file has
\* them at 0, every summary metric and the project grade are 100, whatever
\* the line counts; and a file whose role weight is 0 changes no project
\* metric.
C20_PerfectProjectIs100 ==
    /\ PerfectProject => \A k \in SummaryKeys : aggResult[k] = Hundred
    /\ aggResult # <<>> =>
          aggResult = AggregateProject(Weighted(aggFiles, aggRoleWeights), aggRoleWeights)

-----------------------------------------------------------------------------
(* Claims about the scan                                                   *)

RECURSIVE PathString(_)
\* The characters of the relative path string of a file
PathString(path) ==
    IF Len(path) = 1 THEN Codes(path[1])
    ELSE Codes(path[1]) \o Codes("/") \o PathString(Tail(path))

\* C22: the files list of a report is in ascending lexicographic order of
\* the relative path strings, compared character by character, also when
\* a directory name has a character that sorts below the separator.
C22_FilesSortedByPathString ==
    \A i \in 1..Len(files_report), j \in 1..Len(files_report) :
        i < j => CodesLess(PathString(files_report[i].path),
                           PathString(files_report[j].path))

ReportedPaths == [i \in 1..Len(files_report) |-> files_report[i].path]

\* The confidences the file of a report would have had it parsed
ConfidenceHadItParsed(r) ==
    FileConfidence(BaseConfidence(r.loc, TRUE), One,
                   IF lint.degraded THEN Lit(4, 10) ELSE One,
                   IF typing.degraded THEN Lit(4, 10) ELSE One, One)

\* What the claim says of the report of a file that failed to parse
UnparsedReport(r) ==
    /\ r.metrics.cognitive_complexity = 0
    /\ r.metrics.complexity_score = Hundred
    /\ r.metrics.annotation_coverage = Zero
    /\ \A k \in ConfidenceKeys : FLe(r.confidence[k], ConfidenceHadItParsed(r)[k])
    /\ r.loc > 0 =>
          \A k \in {"duplication", "complexity", "overall"} :
              FLt(r.confidence[k], ConfidenceHadItParsed(r)[k])

\* C23: every enumerated file appears exactly once in the files list,
\* whether or not it parses; a file that fails to parse has raw complexity
\* 0, complexity score 100, annotation coverage 0, and confidences no
\* greater than, and for loc > 0 its duplication, complexity and overall
\* confidence less than, those it would have had it parsed.
C23_UnparsedFileReported ==
    /\ (\A p \in Range(runPaths) : runFiles[p].fault # "read") => runPc # "raised"
    /\ runPc = "done" => ReportedPaths = runPaths
    /\ \A i \in 1..Len(files_report) :
          ~runFiles[files_report[i].path].parse_ok => UnparsedReport(files_report[i])

\* The same holds of the scans whose files ast.parse accepts or rejects
\* with SyntaxError.
SyntaxErrorFileReported ==
    /\ (\A p \in Range(runPaths) : runFiles[p].fault = "none") => runPc # "raised"
    /\ runPc = "done" => ReportedPaths = runPaths
    /\ \A i \in 1..Len(files_report) :
          ~runFiles[files_report[i].path].parse_ok => UnparsedReport(files_report[i])

\* C24: when reading one enumerated file fails, the scan skips the file
\* and completes with a report of every other file; one unreadable file
\* never aborts the scan.
C24_UnreadableFileSkipped ==
    (\E p \in Range(runPaths) : runFiles[p].fault = "read") =>
        /\ runPc # "raised"
        /\ runPc = "done" =>
              ReportedPaths = SelectSeq(runPaths, LAMBDA p : runFiles[p].fault # "read")

-----------------------------------------------------------------------------
(* Claims about the nesting stack                                          *)

\* The statements that are entered: if, for, while, with, try
ControlKinds == {"If", "For", "AsyncFor", "While", "With", "AsyncWith", "Try", "TryStar"}
TryKinds == {"Try", "TryStar"}

\* The field of a node that the number f names in a node id
FieldOf(n, f) ==
    CASE f = 1 -> n.exprs [] f = 2 -> n.body [] f = 3 -> n.orelse
      [] f = 4 -> n.handlers [] OTHER -> n.finalbody

RECURSIVE EnclosingFrom(_, _)
\* The complexity-increasing constructs met on the way from node n down
\* the path, n included and the node at the end of the path excluded: the
\* control statements, the exception handlers and the finally blocks.
EnclosingFrom(n, path) ==
    IF path = <<>> THEN 0
    ELSE (IF n.kind \in ControlKinds \cup {"ExceptHandler"} THEN 1 ELSE 0)
         + (IF n.kind \in TryKinds /\ path[1] = 5 THEN 1 ELSE 0)
         + EnclosingFrom(FieldOf(n, path[1])[path[2]], SubSeq(path, 3, Len(path)))

\* The traversal of file p entered the construct named id once from depth
\* d, adding 1 + d and pushing one frame, and left it once at depth d.
EnteredOnceAt(p, id, d) ==
    LET log == cxTrace[p].log IN
    /\ Cardinality(EventsOf(p, "enter", id)) = 1
    /\ Cardinality(EventsOf(p, "leave", id)) = 1
    /\ \A i \in EventsOf(p, "enter", id) : log[i].add = 1 + d /\ log[i].depth = d + 1
    /\ \A i \in EventsOf(p, "enter", id), j \in EventsOf(p, "leave", id) :
          i < j /\ log[j].depth = d

\* The rule of the nesting stack for file p
NestingRule(p) ==
    LET tree == TreeOf(cxSources[p]) IN
    /\ \A n \in NodesOf(tree) :
          /\ n.kind \in ControlKinds \cup {"ExceptHandler"} =>
                EnteredOnceAt(p, n.id, EnclosingFrom(tree, n.id))
          /\ n.kind \in TryKinds /\ n.finalbody # <<>> =>
                EnteredOnceAt(p, n.id \o <<5>>, EnclosingFrom(tree, n.id) + 1)
    /\ cxTrace[p].stack = <<>>

\* C28: entering an if, for, while, with or try that has d enclosing
\* complexity-increasing constructs adds exactly 1 + d and pushes one frame;
\* each exception handler and each finally block adds 1 plus its depth;
\* every push is matched by a pop, so the stack is as deep after a
\* construct as before it, and empty when the traversal ends.
C28_NestingStackRule ==
    CxDone => \A p \in CxParsedFiles : NestingRule(p)

\* What holds of the code: the rule, for the files without `except*`.
NestingRuleWithoutExceptStar ==
    CxDone =>
        \A p \in CxParsedFiles :
            (\A n \in NodesOf(TreeOf(cxSources[p])) : n.kind # "TryStar") => NestingRule(p)

-----------------------------------------------------------------------------
(* Claims about the winnowing window                                       *)

\* The k-gram hashes h_0, h_1, ... of a stream with their positions
HashPairs(tokens, k) ==
    [j \in 1..(Len(tokens) - k + 1) |-> <<StableHash(SubSeq(tokens, j, j + k - 1)), j - 1>>]

\* The windows of exactly w consecutive hashes, or the one window of all
\* hashes when there are fewer than w
FullWindows(pairs, w) ==
    IF Len(pairs) < w THEN <<pairs>>
    ELSE [j \in 1..(Len(pairs) - w + 1) |-> SubSeq(pairs, j, j + w - 1)]

RECURSIVE EmitMinima(_, _)
\* The hash of the minimum of each window, kept when the minimum differs
\* from the one emitted before
EmitMinima(windows, last) ==
    IF windows = <<>> THEN <<>>
    ELSE LET cur == MinPair(Head(windows)) IN
         IF cur # last THEN <<cur[1]>> \o EmitMinima(Tail(windows), cur)
         ELSE EmitMinima(Tail(windows), last)

SlidingWindowFingerprints(tokens, k, w) ==
    EmitMinima(FullWindows(HashPairs(tokens, k), w), NoPair)

\* C27: for a stream of at least k tokens the fingerprint list is what
\* sliding a window of exactly w consecutive k-gram hashes gives (one window
\* of all hashes when there are fewer than w): the minimum by (hash,
\* position) of each window, appended when it differs from the pair emitted
\* before; no window of fewer than w hashes emits when w hashes exist.
C27_OnlyFullWindowsEmit ==
    DupDone =>
        \A f \in DupFiles :
            Len(dupTokens[f]) >= EffK =>
                dupResult.fingerprints[f] = SlidingWindowFingerprints(dupTokens[f], EffK, EffW)

\* What holds of the code: with fewer than w hashes, or w = 1, the list is
\* the one the full windows give.
FullWindowsWhenNoWarmUp ==
    DupDone =>
        \A f \in DupFiles :
            /\ Len(dupTokens[f]) >= EffK
            /\ (EffW = 1 \/ Len(dupTokens[f]) - EffK + 1 < EffW)
            => dupResult.fingerprints[f] = SlidingWindowFingerprints(dupTokens[f], EffK, EffW)

-----------------------------------------------------------------------------
(* Claims about the annotation coverage                                    *)

\* The function definitions of a tree
FunctionDefsOf(tree) == {i \in 1..Len(tree) : IsFunctionDef(tree[i])}

\* One slot for the return annotation and one for each parameter of every
\* kind: positional-only, positional-or-keyword, keyword-only, *args, **kwargs
SlotsOf(node) ==
    1 + Len(node.posonlyargs) + Len(node.args) + Len(node.kwonlyargs)
    + (IF node.vararg # "None" THEN 1 ELSE 0)
    + (IF node.kwarg # "None" THEN 1 ELSE 0)

RECURSIVE SlotsOfTree(_)
SlotsOfTree(tree) ==
    IF tree = <<>> THEN 0
    ELSE (IF IsFunctionDef(Head(tree)) THEN SlotsOf(Head(tree)) ELSE 0)
         + SlotsOfTree(Tail(tree))

\* C26: the returned total counts, for each function definition, one slot
\* for the return annotation and one per parameter of every kind; the pair
\* is (0, 0) for a tree without function definitions, and
\* 0 <= annotated <= total.
C26_EveryParameterCounted ==
    covPc = "done" =>
        /\ covResult[2] = SlotsOfTree(covTree)
        /\ FunctionDefsOf(covTree) = {} => covResult = <<0, 0>>
        /\ 0 <= covResult[1] /\ covResult[1] <= covResult[2]

\* What holds of the code: the parameters other than the positional-only
\* ones are counted, and the bounds hold.
CoverageWithoutPositionalOnly ==
    covPc = "done" =>
        /\ (\A i \in FunctionDefsOf(covTree) : covTree[i].posonlyargs = <<>>)
             => covResult[2] = SlotsOfTree(covTree)
        /\ FunctionDefsOf(covTree) = {} => covResult = <<0, 0>>
        /\ 0 <= covResult[1] /\ covResult[1] <= covResult[2]

-----------------------------------------------------------------------------
(* Claims about the command line                                           *)

\* The report files that the format asks for
Requested(format) == {IF f = "json" THEN "report.json" ELSE "report.md" : f \in Formats(format)}

CliEnded == cliPc \in {"returned", "raised"}

\* C25: when the report fails schema validation, scan still writes every
\* requested report file, prints the validation error and returns 2; when
\* there are no errors it returns 0.
C25_ValidationNeverBlocksReport ==
    cliArgs.command = "scan" /\ cliEnv.run_returns /\ CliEnded =>
        /\ Rejected(cliEnv) =>
              /\ cliPc = "returned"
              /\ cliFiles = Requested(cliArgs.format)
              /\ <<"stderr", "validation error">> \in Range(cliOutput)
              /\ cliExit = 2
        /\ cliErrors = <<>> =>
              /\ cliPc = "returned"
              /\ cliFiles = Requested(cliArgs.format)
              /\ cliExit = 0

-----------------------------------------------------------------------------
(* Claims about the bootstrap interval                                     *)

SameArguments(a, b) ==
    a.values = b.values /\ a.iterations = b.iterations /\ a.seed = b.seed

\* C21: _bootstrap_interval is a deterministic function of (values,
\* iterations, seed): two calls with the same arguments give the identical
\* [lo, hi], whatever was called before; an empty list gives [0, 0].
C21_BootstrapDeterministic ==
    \A i \in 1..Len(bootCalls) :
        /\ \A j \in 1..Len(bootCalls) :
              SameArguments(bootCalls[i], bootCalls[j]) =>
                  /\ bootCalls[i].raised = bootCalls[j].raised
                  /\ bootCalls[i].interval = bootCalls[j].interval
        /\ bootCalls[i].values = <<>> =>
              ~bootCalls[i].raised /\ bootCalls[i].interval = <<Zero, Zero>>

\* The same call is made twice on three grades, and it returns an interval
\* that is no single point.
C21_Witness ==
    /\ Len(bootCalls) = 2
    /\ SameArguments(bootCalls[1], bootCalls[2])
    /\ Len(bootCalls[2].values) = 3
    /\ ~bootCalls[2].raised
    /\ bootCalls[2].interval[1] # bootCalls[2].interval[2]

RECURSIVE FMinOf(_)
FMinOf(list) == IF Len(list) = 1 THEN list[1] ELSE FMin(list[1], FMinOf(Tail(list)))

RECURSIVE FMaxOf(_)
FMaxOf(list) == IF Len(list) = 1 THEN list[1] ELSE FMax(list[1], FMaxOf(Tail(list)))

\* C30: for a non-empty list of grades G and iterations >= 1 the call
\* returns [lo, hi] with min(G) <= lo <= hi <= max(G), lo and hi being the
\* elements at floor(0.05 * (n - 1)) and floor(0.95 * (n - 1)) of the
\* sorted list of the n = iterations resample means.
C30_IntervalWithinGrades ==
    \A i \in 1..Len(bootCalls) :
        LET call == bootCalls[i]
            n == call.iterations
        IN  call.values # <<>> /\ n >= 1 =>
                /\ ~call.raised
                /\ Len(call.samples) = n
                /\ \A k \in 1..(n - 1) : FLe(call.samples[k], call.samples[k + 1])
                /\ call.interval = <<call.samples[(5 * (n - 1)) \div 100 + 1],
                                     call.samples[(95 * (n - 1)) \div 100 + 1]>>
                /\ FLe(FMinOf(call.values), call.interval[1])
                /\ FLe(call.interval[1], call.interval[2])
                /\ FLe(call.interval[2], FMaxOf(call.values))

\* A call with the largest number of iterations whose sample means are
\* not all the same.
C30_Witness ==
    \E i \in 1..Len(bootCalls) :
        /\ bootCalls[i].iterations = MaxIterations
        /\ bootCalls[i].values # <<>>
        /\ bootCalls[i].samples[1] # bootCalls[i].samples[MaxIterations]
        /\ bootCalls[i].interval[1] # bootCalls[i].interval[2]

=============================================================================
